---- MODULE Spec2Model ----
(***************************************************************************)
(* A model of the gowatcher polling file watcher: the snapshot tree        *)
(* (FileNode), the tree builder (traverseTree), the diff engine            *)
(* (pollNodeEvent) and the Start/Close polling loop with its channels.     *)
(*                                                                         *)
(* Names are tuples of one-character strings, paths are tuples of names.   *)
(* A goroutine blocked on an unbuffered channel is a process whose next    *)
(* step is a joint action with the goroutine on the other end.             *)
(***************************************************************************)
EXTENDS Integers, Sequences, FiniteSets, TLC

\* ------------------------------------------------------------------ bounds
MaxFsOps == 2       \* filesystem changes made by the environment
MaxCycles == 2      \* poll cycles the loop starts
MaxCap == 2         \* largest value handed to SetMaxEvents
MaxStarts == 2      \* calls of Start
MaxCloses == 2      \* calls of Close
MaxLifeWrites == 1   \* filesystem changes in the life-cycle system
MaxSetupOps == 1     \* filesystem changes before the roots are added

\* ------------------------------------------------------------- the universe
NameR == <<"r">>
NameA == <<".", "a">>
NameD == <<"d">>
NameB == <<"b">>

PathR == <<NameR>>
PathA == <<NameR, NameA>>
PathD == <<NameR, NameD>>
PathB == <<NameR, NameD, NameB>>

AllPaths == {PathR, PathA, PathD, PathB}

Last(p) == p[Len(p)]
Parent(p) == SubSeq(p, 1, Len(p) - 1)
IsPrefix(p, q) == Len(p) <= Len(q) /\ SubSeq(q, 1, Len(p)) = p
ChildPaths(p) == {q \in AllPaths : Len(q) = Len(p) + 1 /\ IsPrefix(p, q)}
Below(p) == {q \in AllPaths : IsPrefix(p, q)}

\* ---------------------------------------------------------------- strings
CharCode(c) ==
  CASE c = "." -> 46
    [] c = "/" -> 47
    [] c = "a" -> 97
    [] c = "b" -> 98
    [] c = "d" -> 100
    [] c = "r" -> 114

\* byte-wise order of two names, as sort.Slice over Name() in ioutil.ReadDir
RECURSIVE NameLess(_, _)
NameLess(a, b) ==
  IF b = <<>> THEN FALSE
  ELSE IF a = <<>> THEN TRUE
  ELSE IF CharCode(Head(a)) # CharCode(Head(b))
       THEN CharCode(Head(a)) < CharCode(Head(b))
  ELSE NameLess(Tail(a), Tail(b))

\* the path as one string: "/" before every name
RECURSIVE PathString(_)
PathString(p) == IF p = <<>> THEN <<>> ELSE <<"/">> \o Head(p) \o PathString(Tail(p))

\* regexp.MatchString for a pattern of literal characters and "." (any
\* character): the pattern matches somewhere in s
MatchAt(pat, s, i) ==
  /\ i + Len(pat) - 1 <= Len(s)
  /\ \A j \in 1..Len(pat) : pat[j] = "." \/ pat[j] = s[i + j - 1]
MatchString(pat, s) == \E i \in 1..(Len(s) + 1) : MatchAt(pat, s, i)

\* strings.HasPrefix(filepath.Base(path), ".")
isHiddenFile(p) == Len(Last(p)) > 0 /\ Last(p)[1] = "."

\* ------------------------------------------------------------------- data
Create == "CREATE"
Write == "WRITE"
Remove == "REMOVE"
Chmod == "CHMOD"
Ops == {Create, Write, Remove, Chmod}

NoInfo == [name |-> <<>>, kind |-> "none", mtime |-> 0, perm |-> 0]
ModTime(info) == info.mtime
\* os.FileMode: the type bits and the permission bits
Mode(info) == <<info.kind, info.perm>>
IsDir(info) == info.kind = "dir"

MkEvent(op, path, info) == [Op |-> op, Path |-> path, Info |-> info]
NoEvent == MkEvent("NONE", <<>>, NoInfo)

AbsentNode == [st |-> "absent", Path |-> <<>>, Info |-> NoInfo,
               ignored |-> FALSE, recursive |-> FALSE]
\* a nil *FileNode stored in a map
NilNode == [st |-> "nil", Path |-> <<>>, Info |-> NoInfo,
            ignored |-> FALSE, recursive |-> FALSE]

newNode(path, info, recursive, ignored) ==
  [st |-> "node", Path |-> path, Info |-> info,
   ignored |-> (ignored \/ info.kind = "link"), recursive |-> recursive]

EmptyArena == [q \in AllPaths |-> AbsentNode]

VARIABLES
  fs, fsOps,
  nameFilters, nameIgnores, pathFilters, pathIgnores, ops, ignoreHidden, maxEvents,
  fileTrees, treesNil, running, wg, mu, Closed, panicked,
  loopPc, cycle, numEvents, pendingEv, cancelClosed, poll,
  starts, closers,
  delivered, emitted, pendFrom, snap, pendSnap, since, fsDirty, fsAtPass, recreated,
  closeOnRunning,
  startDur, waiter, trigger, rootFlag, call

cfgVars == <<nameFilters, nameIgnores, pathFilters, pathIgnores, ops, ignoreHidden, maxEvents>>
fsVars == <<fs, fsOps>>
loopVars == <<loopPc, cycle, numEvents, pendingEv, cancelClosed>>
ghostVars == <<delivered, emitted, pendFrom, snap, pendSnap, since, fsDirty, fsAtPass,
               recreated, closeOnRunning>>
progVars == <<fileTrees, treesNil, running, wg, mu, Closed, panicked, poll, starts, closers>>
\* the callers of the public methods: the duration each Start call passed, a
\* caller of Wait, a caller of TriggerEvent, the flag each root was added with
\* and the last call of AddPath or Remove with what it returned
callVars == <<startDur, waiter, trigger, rootFlag, call>>
vars == <<fs, fsOps,
          nameFilters, nameIgnores, pathFilters, pathIgnores, ops, ignoreHidden, maxEvents,
          fileTrees, treesNil, running, wg, mu, Closed, panicked,
          loopPc, cycle, numEvents, pendingEv, cancelClosed, poll,
          starts, closers,
          delivered, emitted, pendFrom, snap, pendSnap, since, fsDirty, fsAtPass,
          recreated, closeOnRunning,
          startDur, waiter, trigger, rootFlag, call>>

\* ------------------------------------------------------------- filesystem
Exists(f, p) == f[p].kind # "none"
Lstat(f, p) == [name |-> Last(p), kind |-> f[p].kind, mtime |-> f[p].mtime, perm |-> f[p].perm]

\* the names ioutil.ReadDir returns, sorted by name
RECURSIVE SortNames(_)
SortNames(S) ==
  IF S = {} THEN <<>>
  ELSE LET m == CHOOSE x \in S : \A y \in S \ {x} : NameLess(x, y)
       IN <<m>> \o SortNames(S \ {m})
ReadDir(f, p) == SortNames({Last(q) : q \in {c \in ChildPaths(p) : Exists(f, c)}})

\* an exclude test that excludes nothing
shouldIgnoreNever(name, path) == FALSE

\* ---------------------------------------------------------------- filters
shouldIgnore(name, path) ==
  IF Len(nameIgnores) = 0 /\ Len(pathIgnores) = 0 THEN FALSE
  ELSE \/ \E i \in 1..Len(nameIgnores) : MatchString(nameIgnores[i], name)
       \/ \E i \in 1..Len(pathIgnores) : MatchString(pathIgnores[i], PathString(path))

\* include filters that let every event through
shouldNoticeAlways(name, path) == TRUE

shouldNotice(name, path) ==
  IF Len(nameFilters) = 0 /\ Len(pathFilters) = 0 THEN TRUE
  ELSE \/ \E i \in 1..Len(nameFilters) : MatchString(nameFilters[i], name)
       \/ \E i \in 1..Len(pathFilters) : MatchString(pathFilters[i], PathString(path))

\* ----------------------------------------------------------- tree builder
\* traverseTree: the set of nodes of the subtree built at path
RECURSIVE traverseTree(_, _, _)
traverseTree(f, path, recursive) ==
  LET stat == Lstat(f, path)
      node == newNode(path, stat, recursive, shouldIgnore(stat.name, path))
      kept == {c \in ChildPaths(path) :
                 /\ Exists(f, c)
                 /\ ~(shouldIgnore(Last(c), c) \/ (ignoreHidden /\ isHiddenFile(c)))}
  IN IF ~IsDir(stat) \/ node.ignored THEN {node}
     ELSE IF ~recursive
          THEN {node} \cup {newNode(c, Lstat(f, c), FALSE, FALSE) : c \in kept}
          ELSE {node} \cup UNION {traverseTree(f, c, TRUE) : c \in kept}

ArenaOf(nodes) ==
  [q \in AllPaths |->
     IF \E n \in nodes : n.Path = q THEN CHOOSE n \in nodes : n.Path = q ELSE AbsentNode]

\* FileNode.RetrieveAllNodes of one root: the paths it lists
NodePaths(arena) == {q \in AllPaths : arena[q].st = "node"}

\* GoWatcher.RetrieveAllNodes: the watch set, or a nil dereference when a
\* root entry holds a nil node
RootIsNil(k) == fileTrees[k][k].st = "nil"
RetrievePanics == \E k \in DOMAIN fileTrees : RootIsNil(k)
RetrieveAllNodes == UNION {NodePaths(fileTrees[k]) : k \in DOMAIN fileTrees}

\* ------------------------------------------------------------ diff engine
Cycles == 1..MaxCycles

IdlePoller == [st |-> "none", todo |-> {}, cur |-> <<>>, stack |-> <<>>]

Frame(path, ret) ==
  [node |-> path, pc |-> "enter", newInfo |-> NoInfo, list |-> <<>>,
   infoMap |-> {}, kids |-> {}, ev |-> NoEvent, ret |-> ret]

SendPcs == {"sendRemoveSelf", "sendWrite", "sendChmod", "sendCreate", "sendRemoveChild"}

Top(c) == poll[c].stack[Len(poll[c].stack)]
Walking(c) == poll[c].st = "walk" /\ Len(poll[c].stack) > 0
Arena(c) == fileTrees[poll[c].cur]

SetTop(stack, fr) == [stack EXCEPT ![Len(stack)] = fr]

\* the entry at p replaced by v and the subtree below it unreachable
DropTo(a, p, v) ==
  [q \in AllPaths |-> IF q = p THEN v ELSE IF IsPrefix(p, q) THEN AbsentNode ELSE a[q]]

\* pollNodeEvent returns r ("node" or "nil") to its call site: pollEvents
\* (root), the listing loop for an existing child (list) or a new one (new,
\* result dropped), or the examine loop (exam)
Return(a, stack, r) ==
  LET callee == stack[Len(stack)]
      rest == SubSeq(stack, 1, Len(stack) - 1)
      a2 == IF r = "nil" /\ callee.ret # "new" THEN DropTo(a, callee.node, NilNode) ELSE a
  IN IF callee.ret = "root" THEN [arena |-> a2, stack |-> <<>>]
     ELSE LET caller == rest[Len(rest)]
              caller2 == IF callee.ret \in {"list", "new"}
                         THEN [caller EXCEPT !.infoMap = @ \cup {Last(callee.node)},
                                             !.list = Tail(@)]
                         ELSE caller
          IN [arena |-> a2, stack |-> SetTop(rest, caller2)]

\* a comparison that leaves out the mode once the modification time differed
AfterStatWriteOnly(n, fr, newInfo, from) ==
  IF from = "enter" /\ ModTime(n.Info) # ModTime(newInfo)
  THEN [fr EXCEPT !.pc = "sendWrite", !.newInfo = newInfo,
                  !.ev = MkEvent(Write, n.Path, newInfo)]
  ELSE IF from = "enter" /\ Mode(n.Info) # Mode(newInfo)
  THEN [fr EXCEPT !.pc = "sendChmod", !.newInfo = newInfo,
                  !.ev = MkEvent(Chmod, n.Path, newInfo)]
  ELSE [fr EXCEPT !.pc = "update", !.newInfo = newInfo, !.ev = NoEvent]

\* where a frame goes once the old and the new info are both known
AfterStat(n, fr, newInfo, from) ==
  IF from = "enter" /\ ModTime(n.Info) # ModTime(newInfo)
  THEN [fr EXCEPT !.pc = "sendWrite", !.newInfo = newInfo,
                  !.ev = MkEvent(Write, n.Path, newInfo)]
  ELSE IF Mode(n.Info) # Mode(newInfo)
  THEN [fr EXCEPT !.pc = "sendChmod", !.newInfo = newInfo,
                  !.ev = MkEvent(Chmod, n.Path, newInfo)]
  ELSE [fr EXCEPT !.pc = "update", !.newInfo = newInfo, !.ev = NoEvent]

\* lines 405-434: the nil and ignored checks, Lstat, and the comparisons up
\* to the first emission
EnterStep(a, stack) ==
  LET fr == stack[Len(stack)]
      n == a[fr.node]
  IN IF n.st = "nil" THEN Return(a, stack, "nil")
     ELSE IF n.ignored THEN Return(a, stack, "node")
     ELSE IF ~Exists(fs, n.Path)
     THEN [arena |-> a,
           stack |-> SetTop(stack, [fr EXCEPT !.pc = "sendRemoveSelf",
                                              !.ev = MkEvent(Remove, n.Path, n.Info)])]
     ELSE [arena |-> a, stack |-> SetTop(stack, AfterStat(n, fr, Lstat(fs, n.Path), "enter"))]

\* a pass that forgets to store the new info
StoredInfoStale(n, newInfo) == n.Info

\* the info the node keeps after the comparisons (line 436)
StoredInfo(n, newInfo) == newInfo

\* lines 436-445: store the new info, stop at a file or a non-recursive
\* node, else read the directory
UpdateStep(a, stack) ==
  LET fr == stack[Len(stack)]
      n == a[fr.node]
      a2 == [a EXCEPT ![fr.node].Info = StoredInfo(n, fr.newInfo)]
  IN IF ~IsDir(fr.newInfo) \/ ~n.recursive THEN Return(a2, stack, "node")
     ELSE IF ~(Exists(fs, n.Path) /\ fs[n.Path].kind = "dir") THEN Return(a2, stack, "node")
     ELSE LET names == ReadDir(fs, n.Path)
              infos == [i \in 1..Len(names) |-> Lstat(fs, Append(n.Path, names[i]))]
          IN [arena |-> a2,
              stack |-> SetTop(stack, [fr EXCEPT !.pc = "list", !.list = infos,
                                                 !.infoMap = {}])]

\* a lookup that never finds the child
ChildExistsNever(child) == FALSE

\* line 460: child, exist := node.Children[name]
ChildExists(child) == child.st # "absent"

\* a listing loop that records the new child as excluded
InsertChildIgnored(a, path, newChild) == [a EXCEPT ![path] = [newChild EXCEPT !.ignored = TRUE]]

\* line 469: node.Children[name] = newChild
InsertChild(a, path, newChild) == [a EXCEPT ![path] = newChild]

\* a listing loop that skips no hidden entry
ListingSkipsNever(path) == FALSE

\* lines 452-459
ListingSkips(path) == ignoreHidden /\ isHiddenFile(path)

\* lines 448-481: one iteration of the loop over the listing
ListStep(a, stack) ==
  LET fr == stack[Len(stack)]
      n == a[fr.node]
  IN IF fr.list = <<>>
     THEN [arena |-> a, panic |-> FALSE,
           stack |-> SetTop(stack,
                       [fr EXCEPT !.pc = "exam",
                                  !.kids = {Last(q) : q \in {c \in ChildPaths(n.Path) :
                                                               a[c].st # "absent"}}])]
     ELSE LET info == Head(fr.list)
              path == Append(n.Path, info.name)
              child == a[path]
              skip == [arena |-> a, panic |-> FALSE,
                       stack |-> SetTop(stack, [fr EXCEPT !.list = Tail(@)])]
          IN IF ListingSkips(path) THEN skip
             ELSE IF ChildExists(child) /\ child.st = "nil"
             THEN [arena |-> a, panic |-> TRUE, stack |-> stack]
             ELSE IF ChildExists(child)
             THEN IF child.ignored THEN skip
                  ELSE [arena |-> a, panic |-> FALSE,
                        stack |-> Append(stack, Frame(path, "list"))]
             ELSE LET newChild == newNode(path, info, n.recursive,
                                          shouldIgnore(info.name, path))
                      a2 == InsertChild(a, path, newChild)
                  IN IF newChild.ignored
                     THEN [arena |-> a2, panic |-> FALSE,
                           stack |-> SetTop(stack, [fr EXCEPT !.list = Tail(@)])]
                     ELSE [arena |-> a2, panic |-> FALSE,
                           stack |-> SetTop(stack,
                                       [fr EXCEPT !.pc = "sendCreate",
                                                  !.ev = MkEvent(Create, path, info)])]

\* lines 483-504: the iteration of the loop over node.Children that visits k
ExamStep(a, stack, k) ==
  LET fr == stack[Len(stack)]
      n == a[fr.node]
      path == Append(n.Path, k)
      childNode == a[path]
      fr1 == [fr EXCEPT !.kids = @ \ {k}]
  IN IF childNode.st = "nil"
     THEN [arena |-> [a EXCEPT ![path] = AbsentNode], stack |-> SetTop(stack, fr1)]
     ELSE IF k \in fr.infoMap
     THEN [arena |-> a,
           stack |-> Append(SetTop(stack, [fr1 EXCEPT !.infoMap = @ \ {k}]),
                            Frame(path, "exam"))]
     ELSE IF childNode.ignored
     THEN [arena |-> DropTo(a, path, AbsentNode), stack |-> SetTop(stack, fr1)]
     ELSE [arena |-> DropTo(a, path, AbsentNode),
           stack |-> SetTop(stack,
                       [fr1 EXCEPT !.pc = "sendRemoveChild",
                                   !.ev = MkEvent(Remove, childNode.Path, childNode.Info)])]

\* the diff task after the loop has taken its event from evt
AfterSend(a, stack) ==
  LET fr == stack[Len(stack)]
      n == a[fr.node]
  IN CASE fr.pc = "sendRemoveSelf" -> Return(a, stack, "nil")
       [] fr.pc = "sendWrite" ->
            [arena |-> a, stack |-> SetTop(stack, AfterStat(n, fr, fr.newInfo, "write"))]
       [] fr.pc = "sendChmod" ->
            [arena |-> a, stack |-> SetTop(stack, [fr EXCEPT !.pc = "update", !.ev = NoEvent])]
       [] fr.pc = "sendCreate" ->
            [arena |-> a,
             stack |-> Append(SetTop(stack, [fr EXCEPT !.pc = "list", !.ev = NoEvent]),
                              Frame(fr.ev.Path, "new"))]
       [] fr.pc = "sendRemoveChild" ->
            [arena |-> a, stack |-> SetTop(stack, [fr EXCEPT !.pc = "exam", !.ev = NoEvent])]

\* ------------------------------------------------------------------ state
Alive == panicked = "none"
NoTrees == [k \in {} |-> EmptyArena]
NotRecreated == [p \in AllPaths |-> "no"]

InitFs ==
  [p \in AllPaths |->
     [kind |-> IF p \in {PathR, PathD} THEN "dir" ELSE "file", mtime |-> 0, perm |-> 0]]

\* New(): the watcher as constructed, over an existing directory tree
\* no Start call has passed a duration yet, no root has been added, no AddPath
\* or Remove call has returned
NoDurations == [i \in {} |-> 0]
NoFlags == [k \in {} |-> FALSE]
NoCall == [op |-> "none", path |-> <<>>, recursive |-> FALSE, root |-> FALSE, err |-> "none"]
\* no TriggerEvent call yet
NoTrigger == [pc |-> "idle", event |-> NoEvent]

Init ==
  /\ fs = InitFs /\ fsOps = 0
  /\ nameFilters = <<>> /\ nameIgnores = <<>> /\ pathFilters = <<>> /\ pathIgnores = <<>>
  /\ ops = {} /\ ignoreHidden = FALSE /\ maxEvents = 0
  /\ fileTrees = NoTrees /\ treesNil = FALSE /\ running = FALSE /\ wg = 1 /\ mu = 0
  /\ Closed = FALSE /\ panicked = "none"
  /\ loopPc = "none" /\ cycle = 0 /\ numEvents = 0 /\ pendingEv = NoEvent
  /\ cancelClosed = {} /\ poll = [c \in Cycles |-> IdlePoller]
  /\ starts = [i \in 1..MaxStarts |-> "idle"]
  /\ closers = [j \in 1..MaxCloses |-> "idle"]
  /\ delivered = <<>> /\ emitted = <<>> /\ snap = NoTrees /\ pendSnap = NoTrees
  /\ since = {} /\ fsDirty = TRUE /\ recreated = NotRecreated /\ closeOnRunning = 0
  /\ pendFrom = 0 /\ fsAtPass = InitFs
  /\ startDur = NoDurations /\ waiter = "idle" /\ trigger = NoTrigger
  /\ rootFlag = NoFlags /\ call = NoCall

NotStarted == loopPc = "none" /\ \A i \in 1..MaxStarts : starts[i] = "idle"
NoWalker == \A c \in Cycles : poll[c].st # "walk"

\* ---------------------------------------------------------- configuration
OpSets == {{Create}, {Write, Remove}}
NamePatterns == {NameB}

SetMaxEvents(delta) ==
  /\ Alive /\ mu = 0 /\ NotStarted /\ maxEvents = 0
  /\ maxEvents' = delta
  /\ UNCHANGED <<callVars, fsVars, nameFilters, nameIgnores, pathFilters, pathIgnores, ops,
                 ignoreHidden, progVars, loopVars, ghostVars>>

FilterOps(S) ==
  /\ Alive /\ mu = 0 /\ NotStarted /\ ops = {}
  /\ ops' = S
  /\ UNCHANGED <<callVars, fsVars, nameFilters, nameIgnores, pathFilters, pathIgnores, maxEvents,
                 ignoreHidden, progVars, loopVars, ghostVars>>

FilterName(pat) ==
  /\ Alive /\ mu = 0 /\ NotStarted /\ nameFilters = <<>>
  /\ nameFilters' = Append(nameFilters, pat)
  /\ UNCHANGED <<callVars, fsVars, ops, nameIgnores, pathFilters, pathIgnores, maxEvents,
                 ignoreHidden, progVars, loopVars, ghostVars>>

IgnoreName(pat) ==
  /\ Alive /\ mu = 0 /\ NotStarted /\ nameIgnores = <<>> /\ DOMAIN fileTrees = {}
  /\ nameIgnores' = Append(nameIgnores, pat)
  /\ UNCHANGED <<callVars, fsVars, ops, nameFilters, pathFilters, pathIgnores, maxEvents,
                 ignoreHidden, progVars, loopVars, ghostVars>>

IgnoreHiddenFiles(ignore) ==
  /\ Alive /\ mu = 0 /\ NotStarted /\ ignoreHidden # ignore /\ DOMAIN fileTrees = {}
  /\ ignoreHidden' = ignore
  /\ UNCHANGED <<callVars, fsVars, ops, nameFilters, nameIgnores, pathFilters, pathIgnores, maxEvents,
                 progVars, loopVars, ghostVars>>

\* ------------------------------------------------------------ AddPath
RootCandidates == {<<PathR, TRUE>>, <<PathR, FALSE>>, <<PathD, TRUE>>}

\* a builder of root trees that always descends
RootArenaDeep(f, path, recursive) ==
  LET a == ArenaOf(traverseTree(f, path, TRUE))
  IN [a EXCEPT ![path].recursive = TRUE]

\* a tree builder that records the root's excluded entries as ignored nodes
RootArenaListsExcluded(f, path, recursive) ==
  LET a == ArenaOf(traverseTree(f, path, recursive))
  IN [q \in AllPaths |->
        IF q = path THEN [a[q] EXCEPT !.recursive = TRUE]
        ELSE IF q \in ChildPaths(path) /\ Exists(f, q) /\ shouldIgnore(Last(q), q)
        THEN newNode(q, Lstat(f, q), recursive, TRUE)
        ELSE a[q]]

RootArena(f, path, recursive) ==
  LET a == ArenaOf(traverseTree(f, path, recursive))
  IN [a EXCEPT ![path].recursive = TRUE]

\* a root lookup that never finds the path
ExistedNever(path) == FALSE

\* line 211
Existed(path) == path \in DOMAIN fileTrees

\* a hidden check that is never made
HiddenSkippedNever(path) == FALSE

\* lines 216-220
HiddenSkipped(path) == ignoreHidden /\ isHiddenFile(path)

\* lines 202-221: the way AddPath takes for a path
AddPathOutcome(path) ==
  IF ~Exists(fs, path) THEN "ErrNotExist"
  ELSE IF fs[path].kind = "link" THEN "ErrWatchSymlink"
  ELSE IF Existed(path) THEN "existed"
  ELSE IF shouldIgnore(Last(path), path) \/ HiddenSkipped(path) THEN "skipped"
  ELSE "register"

\* lines 193-236, the call that registers a root: the path is there, is no
\* symbolic link, is no root yet and is neither excluded nor hidden
AddPathRegisters(path, recursive) ==
  /\ Alive /\ mu = 0 /\ NotStarted
  /\ AddPathOutcome(path) = "register"
  /\ IF treesNil
     THEN panicked' = "assignment to entry in nil map" /\ UNCHANGED <<fileTrees, rootFlag>>
     ELSE /\ fileTrees' = [k \in DOMAIN fileTrees \cup {path} |->
                             IF k = path THEN RootArena(fs, path, recursive)
                             ELSE fileTrees[k]]
          /\ rootFlag' = [k \in DOMAIN rootFlag \cup {path} |->
                            IF k = path THEN recursive ELSE rootFlag[k]]
          /\ UNCHANGED panicked
  /\ recreated' = NotRecreated
  /\ UNCHANGED <<startDur, waiter, trigger>>
  /\ UNCHANGED <<fsVars, cfgVars, treesNil, running, wg, mu, Closed, poll, starts, closers,
                 loopVars, delivered, emitted, pendFrom, snap, pendSnap, since, fsDirty,
                 fsAtPass, closeOnRunning>>

AddPath(path, recursive) == AddPathRegisters(path, recursive) /\ UNCHANGED call

\* what a caller of AddPath or Remove passed and gets back, and whether the
\* path was a root when the call was made
Returned(op, path, recursive, err) ==
  [op |-> op, path |-> path, recursive |-> recursive, root |-> path \in DOMAIN fileTrees,
   err |-> err]

\* lines 202-221: the call that returns before the tree is built
AddPathReturns(path, recursive) ==
  /\ Alive /\ mu = 0 /\ NotStarted
  /\ AddPathOutcome(path) # "register"
  /\ call' = Returned("AddPath", path, recursive,
                      IF AddPathOutcome(path) \in {"existed", "skipped"} THEN "nil"
                      ELSE AddPathOutcome(path))
  /\ UNCHANGED <<startDur, waiter, trigger, rootFlag>>
  /\ UNCHANGED <<fsVars, cfgVars, progVars, loopVars, ghostVars>>

\* AddPath with its return value
AddPathCall(path, recursive) ==
  \/ AddPathRegisters(path, recursive) /\ call' = Returned("AddPath", path, recursive, "nil")
  \/ AddPathReturns(path, recursive)

\* a Remove that deletes nothing
DeletedNothing(trees, path) == trees

\* line 301: delete(w.fileTrees, path)
Deleted(trees, path) == [k \in DOMAIN trees \ {path} |-> trees[k]]

\* lines 292-304
RemoveCall(path) ==
  /\ Alive /\ mu = 0
  /\ IF path \in DOMAIN fileTrees
     THEN fileTrees' = Deleted(fileTrees, path) /\ rootFlag' = Deleted(rootFlag, path)
     ELSE UNCHANGED <<fileTrees, rootFlag>>
  /\ call' = Returned("Remove", path, FALSE, "nil")
  /\ UNCHANGED <<startDur, waiter, trigger>>
  /\ UNCHANGED <<fsVars, cfgVars, treesNil, running, wg, mu, Closed, panicked, poll, starts,
                 closers, loopVars, ghostVars>>

\* the tree as the caller finds it before any root is watched: entries are
\* deleted, or replaced by symbolic links to what they were
SetupWindow == Alive /\ NotStarted /\ fsOps < MaxSetupOps

SetupFrame ==
  /\ fsOps' = fsOps + 1
  /\ UNCHANGED <<callVars, cfgVars, progVars, loopVars, ghostVars>>

SetupRemove(p) ==
  /\ SetupWindow /\ Exists(fs, p)
  /\ fs' = [q \in AllPaths |-> IF IsPrefix(p, q) THEN [kind |-> "none", mtime |-> 0, perm |-> 0]
                                 ELSE fs[q]]
  /\ SetupFrame

SetupSymlink(p) ==
  /\ SetupWindow /\ Exists(fs, p) /\ fs[p].kind # "link"
  /\ fs' = [fs EXCEPT ![p].kind = "link"]
  /\ SetupFrame

\* --------------------------------------------- the filesystem's environment
\* changes happen between diff passes, after a root was added
FsWindow ==
  /\ Alive /\ fsOps < MaxFsOps /\ DOMAIN fileTrees # {}
  /\ loopPc = "top" /\ NoWalker /\ cycle < MaxCycles

FsFrame ==
  /\ fsOps' = fsOps + 1 /\ fsDirty' = TRUE
  /\ UNCHANGED <<callVars, cfgVars, progVars, loopVars, delivered, emitted, pendFrom, snap, pendSnap,
                 since, fsAtPass, closeOnRunning>>

FsWrite(p) ==
  /\ FsWindow /\ Exists(fs, p)
  /\ fs' = [fs EXCEPT ![p].mtime = fsOps + 1]
  /\ UNCHANGED recreated
  /\ FsFrame

FsChmod(p) ==
  /\ FsWindow /\ Exists(fs, p)
  /\ fs' = [fs EXCEPT ![p].perm = 1 - @]
  /\ UNCHANGED recreated
  /\ FsFrame

FsRemove(p) ==
  /\ FsWindow /\ Exists(fs, p)
  /\ fs' = [q \in AllPaths |-> IF IsPrefix(p, q) THEN [kind |-> "none", mtime |-> 0, perm |-> 0]
                                 ELSE fs[q]]
  /\ recreated' = [q \in AllPaths |-> IF IsPrefix(p, q) /\ Exists(fs, q) THEN "deleted"
                                        ELSE recreated[q]]
  /\ FsFrame

\* a populated directory renamed into the watched tree: p and what lies below
\* it appear at once
FsMoveIn(p) ==
  /\ FsWindow /\ ~Exists(fs, p)
  /\ IF Len(p) = 1 THEN TRUE ELSE fs[Parent(p)].kind = "dir"
  /\ fs' = [q \in AllPaths |-> IF IsPrefix(p, q) THEN [InitFs[q] EXCEPT !.mtime = fsOps + 1]
                                 ELSE fs[q]]
  /\ recreated' = [q \in AllPaths |-> IF IsPrefix(p, q) /\ recreated[q] = "deleted"
                                        THEN "recreated" ELSE recreated[q]]
  /\ FsFrame

\* several files touched between two polls
FsTouch(S) ==
  /\ FsWindow /\ S # {} /\ \A p \in S : Exists(fs, p)
  /\ fs' = [p \in AllPaths |-> IF p \in S THEN [fs[p] EXCEPT !.mtime = fsOps + 1] ELSE fs[p]]
  /\ UNCHANGED recreated
  /\ FsFrame

\* a deletion that falls into a diff pass: the pass waits at an emission,
\* holding the listings it has read so far
FsRemoveMid(p) ==
  /\ Alive /\ fsOps < MaxFsOps /\ Exists(fs, p)
  /\ \E c \in Cycles : Walking(c)
  /\ fs' = [q \in AllPaths |-> IF IsPrefix(p, q) THEN [kind |-> "none", mtime |-> 0, perm |-> 0]
                                 ELSE fs[q]]
  /\ recreated' = [q \in AllPaths |-> IF IsPrefix(p, q) /\ Exists(fs, q) THEN "deleted"
                                        ELSE recreated[q]]
  /\ FsFrame

CreateKinds == {"file", "dir"}

FsCreate(p, kind) ==
  /\ FsWindow /\ ~Exists(fs, p)
  /\ IF Len(p) = 1 THEN TRUE ELSE fs[Parent(p)].kind = "dir"
  /\ fs' = [fs EXCEPT ![p] = [kind |-> kind, mtime |-> fsOps + 1, perm |-> 0]]
  /\ recreated' = [recreated EXCEPT ![p] = IF @ = "deleted" THEN "recreated" ELSE @]
  /\ FsFrame

\* -------------------------------------------------------------- Start
\* time.Nanosecond, and the durations callers pass to Start
Nanosecond == 1
Durations == {0 - Nanosecond, 0, Nanosecond}

\* a duration check that lets zero through
ErrDurationTooShortNegative(d) == d < 0

\* line 321
ErrDurationTooShort(d) == d < Nanosecond

\* the durations passed so far, with call i passing d
Passed(durs, i, d) == [j \in DOMAIN durs \cup {i} |-> IF j = i THEN d ELSE durs[j]]

\* line 321: the duration check comes before the lock
StartTooShort(i) ==
  /\ Alive /\ starts[i] = "idle"
  /\ \E d \in Durations :
       /\ ErrDurationTooShort(d)
       /\ startDur' = Passed(startDur, i, d)
  /\ starts' = [starts EXCEPT ![i] = "errShort"]
  /\ UNCHANGED <<waiter, trigger, rootFlag, call>>
  /\ UNCHANGED <<fsVars, cfgVars, fileTrees, treesNil, running, wg, mu, Closed, panicked, poll,
                 closers, loopVars, ghostVars>>

\* lines 326-332
StartLock(i) ==
  /\ Alive /\ starts[i] = "idle" /\ mu = 0
  /\ \E d \in Durations :
       /\ ~ErrDurationTooShort(d)
       /\ startDur' = Passed(startDur, i, d)
  /\ IF running
     THEN starts' = [starts EXCEPT ![i] = "errRunning"] /\ UNCHANGED running
     ELSE starts' = [starts EXCEPT ![i] = "wgDone"] /\ running' = TRUE
  /\ UNCHANGED <<waiter, trigger, rootFlag, call>>
  /\ UNCHANGED <<fsVars, cfgVars, fileTrees, treesNil, wg, mu, Closed, panicked, poll,
                 closers, loopVars, ghostVars>>

\* sync.WaitGroup.Done panics when the counter goes below zero
WgDonePanics(counter) == counter - 1 < 0

\* line 335, then the loop is entered
StartWgDone(i) ==
  /\ Alive /\ starts[i] = "wgDone"
  /\ IF WgDonePanics(wg)
     THEN /\ panicked' = "sync: negative WaitGroup counter"
          /\ UNCHANGED <<wg, starts, loopPc>>
     ELSE /\ wg' = wg - 1
          /\ starts' = [starts EXCEPT ![i] = "loop"]
          /\ loopPc' = "top"
          /\ UNCHANGED panicked
  /\ UNCHANGED <<callVars, fsVars, cfgVars, fileTrees, treesNil, running, mu, Closed, poll, closers,
                 cycle, numEvents, pendingEv, cancelClosed, ghostVars>>

\* ------------------------------------------------- Wait and TriggerEvent
\* a Wait that does not wait
WaitReadyAlways == TRUE

\* line 510: w.wg.Wait() returns when the counter is zero
WaitReady == wg = 0

\* line 509: a caller enters Wait
WaitCall ==
  /\ Alive /\ waiter = "idle"
  /\ waiter' = "wait"
  /\ UNCHANGED <<startDur, trigger, rootFlag, call>>
  /\ UNCHANGED <<fsVars, cfgVars, progVars, loopVars, ghostVars>>

\* line 510
WaitReturn ==
  /\ Alive /\ waiter = "wait" /\ WaitReady
  /\ waiter' = "returned"
  /\ UNCHANGED <<startDur, trigger, rootFlag, call>>
  /\ UNCHANGED <<fsVars, cfgVars, progVars, loopVars, ghostVars>>

\* lines 310-313: with no file given the event carries a made-up one
TriggeredInfo == [NoInfo EXCEPT !.name = "triggered event"]
TriggeredEvent(eventType) == MkEvent(eventType, <<"-">>, TriggeredInfo)

\* line 308: a caller enters TriggerEvent, which first calls Wait
TriggerCall(eventType) ==
  /\ Alive /\ trigger.pc = "idle"
  /\ trigger' = [pc |-> "wait", event |-> TriggeredEvent(eventType)]
  /\ UNCHANGED <<startDur, waiter, rootFlag, call>>
  /\ UNCHANGED <<fsVars, cfgVars, progVars, loopVars, ghostVars>>

\* line 309: Wait has returned, the caller is at the send of line 314
TriggerWaited ==
  /\ Alive /\ trigger.pc = "wait" /\ WaitReady
  /\ trigger' = [trigger EXCEPT !.pc = "send"]
  /\ UNCHANGED <<startDur, waiter, rootFlag, call>>
  /\ UNCHANGED <<fsVars, cfgVars, progVars, loopVars, ghostVars>>

\* line 314: w.Event <- Event{...} meets the consumer's receive
TriggerReceived ==
  /\ Alive /\ trigger.pc = "send"
  /\ trigger' = [trigger EXCEPT !.pc = "done"]
  /\ UNCHANGED <<startDur, waiter, rootFlag, call>>
  /\ UNCHANGED <<fsVars, cfgVars, progVars, loopVars, ghostVars>>

Waiters ==
  \/ WaitCall
  \/ WaitReturn
  \/ \E eventType \in {Create, Chmod} : TriggerCall(eventType)
  \/ TriggerWaited
  \/ TriggerReceived

\* ------------------------------------------------------- the polling loop
\* lines 337-355: the cycle's channels and its diff task
LoopTop ==
  /\ Alive /\ loopPc = "top" /\ cycle < MaxCycles
  /\ cycle' = cycle + 1 /\ numEvents' = 0 /\ loopPc' = "select"
  /\ poll' = [poll EXCEPT ![cycle + 1] = [IdlePoller EXCEPT !.st = "waitMu"]]
  /\ delivered' = <<>> /\ emitted' = <<>>
  /\ UNCHANGED <<callVars, fsVars, cfgVars, fileTrees, treesNil, running, wg, mu, Closed, panicked,
                 starts, closers, pendingEv, cancelClosed, pendFrom, snap, pendSnap, since,
                 fsDirty, fsAtPass, recreated, closeOnRunning>>

\* an allow-list test that lets every kind through
OpAllowedAlways(event) == TRUE

\* lines 365-373
OpAllowed(event) == Cardinality(ops) = 0 \/ event.Op \in ops
PassesFilters(event) == OpAllowed(event) /\ shouldNotice(event.Info.name, event.Path)

\* a cap test that is late by one
CapExceededLate(n) == maxEvents > 0 /\ n > maxEvents + 1

\* line 375, evaluated after numEvents++
CapExceeded(n) == maxEvents > 0 /\ n > maxEvents

\* ---- the diff task between two channel operations
\* The pass holds the watcher's lock from line 396 to its end, so what it
\* does between two channel operations is one step: a configuration is the
\* trees, the roots still to visit (the range of line 398, in any order),
\* the root being visited and the call stack of pollNodeEvent.
Cfg(trees, todo, cur, stack, panic) ==
  [trees |-> trees, todo |-> todo, cur |-> cur, stack |-> stack, panic |-> panic]

CfgBlocked(x) ==
  \/ x.panic
  \/ x.stack = <<>> /\ x.todo = {}
  \/ x.stack # <<>> /\ x.stack[Len(x.stack)].pc \in SendPcs

WithArena(x, r, panic) ==
  Cfg([x.trees EXCEPT ![x.cur] = r.arena], x.todo, x.cur, r.stack, panic)

CfgSucc(x) ==
  IF x.stack = <<>>
  THEN {Cfg(x.trees, x.todo \ {k}, k, <<Frame(k, "root")>>, FALSE) : k \in x.todo}
  ELSE LET a == x.trees[x.cur]
           fr == x.stack[Len(x.stack)]
       IN CASE fr.pc = "enter" -> {WithArena(x, EnterStep(a, x.stack), FALSE)}
            [] fr.pc = "update" -> {WithArena(x, UpdateStep(a, x.stack), FALSE)}
            [] fr.pc = "list" ->
                 LET r == ListStep(a, x.stack) IN {WithArena(x, r, r.panic)}
            [] fr.pc = "exam" ->
                 IF fr.kids = {} THEN {WithArena(x, Return(a, x.stack, "node"), FALSE)}
                 ELSE {WithArena(x, ExamStep(a, x.stack, k), FALSE) : k \in fr.kids}

RECURSIVE WalkRun(_)
WalkRun(S) ==
  IF \A x \in S : CfgBlocked(x) THEN S
  ELSE WalkRun(UNION {IF CfgBlocked(x) THEN {x} ELSE CfgSucc(x) : x \in S})

\* the diff task c reaches x: blocked in an emission, or past the deferred
\* Unlock of line 397 and about to send on done
Reaches(c, x) ==
  /\ fileTrees' = x.trees
  /\ panicked' = IF x.panic THEN "nil pointer dereference" ELSE panicked
  /\ IF x.stack = <<>> /\ ~x.panic
     THEN /\ mu' = 0
          /\ poll' = [poll EXCEPT ![c] = [st |-> "sendDone", todo |-> {}, cur |-> <<>>,
                                          stack |-> <<>>]]
     ELSE /\ mu' = c
          /\ poll' = [poll EXCEPT ![c] = [st |-> "walk", todo |-> x.todo, cur |-> x.cur,
                                          stack |-> x.stack]]

\* a pass that does not wait for the lock
MuFreeAlways == TRUE

\* pollEvents, line 396: the diff pass takes the watcher's lock
MuFree == mu = 0

PollLock(c) ==
  /\ Alive /\ poll[c].st = "waitMu" /\ MuFree
  /\ \E x \in WalkRun({Cfg(fileTrees, DOMAIN fileTrees, <<>>, <<>>, FALSE)}) : Reaches(c, x)
  /\ snap' = fileTrees
  /\ IF fsDirty
     THEN pendSnap' = fileTrees /\ since' = {} /\ fsDirty' = FALSE
     ELSE UNCHANGED <<pendSnap, since, fsDirty>>
  /\ UNCHANGED <<callVars, fsVars, cfgVars, treesNil, running, wg, Closed, starts,
                 closers, loopVars, delivered, emitted, pendFrom, fsAtPass, recreated,
                 closeOnRunning>>

\* an emission whose select finds cancel closed (lines 422-424, 429-431,
\* 473-475, 497-499); the Remove of line 417 has no such case
CancelPcs == SendPcs \ {"sendRemoveSelf"}

PollCancelled(c) ==
  /\ Alive /\ Walking(c) /\ Top(c).pc \in CancelPcs /\ c \in cancelClosed
  /\ LET r == Return(Arena(c), poll[c].stack, "node")
         x0 == Cfg([fileTrees EXCEPT ![poll[c].cur] = r.arena], poll[c].todo, poll[c].cur,
                   r.stack, FALSE)
     IN \E x \in WalkRun({x0}) : Reaches(c, x)
  /\ UNCHANGED <<callVars, fsVars, cfgVars, treesNil, running, wg, Closed, starts, closers,
                 loopVars, ghostVars>>

\* case event := <-evt (lines 364-379): the diff task's send meets the
\* loop's receive; the loop filters, counts, and either cancels the cycle or
\* goes on to send on w.Event
PollSendEvt(c) ==
  /\ Alive /\ Walking(c) /\ Top(c).pc \in SendPcs
  /\ loopPc = "select" /\ cycle = c
  /\ LET event == Top(c).ev
         n == numEvents + 1
         r == AfterSend(Arena(c), poll[c].stack)
         x0 == Cfg([fileTrees EXCEPT ![poll[c].cur] = r.arena], poll[c].todo, poll[c].cur,
                   r.stack, FALSE)
     IN /\ \E x \in WalkRun({x0}) : Reaches(c, x)
        /\ emitted' = Append(emitted, event)
        /\ IF ~PassesFilters(event)
           THEN UNCHANGED <<loopPc, numEvents, pendingEv, cancelClosed, pendFrom>>
           ELSE IF CapExceeded(n)
           THEN /\ numEvents' = n /\ cancelClosed' = cancelClosed \cup {c}
                /\ loopPc' = "sleep" /\ UNCHANGED <<pendingEv, pendFrom>>
           ELSE /\ numEvents' = n /\ pendingEv' = event /\ loopPc' = "deliver"
                /\ pendFrom' = c /\ UNCHANGED cancelClosed
  /\ UNCHANGED <<callVars, fsVars, cfgVars, treesNil, running, wg, Closed, starts,
                 closers, cycle, delivered, snap, pendSnap, since, fsDirty, fsAtPass,
                 recreated, closeOnRunning>>

\* a forwarding stage that hands the consumer the newest event first
ConsumeOutOfOrder ==
  /\ Alive /\ loopPc = "deliver"
  /\ delivered' = <<pendingEv>> \o delivered
  /\ since' = since \cup {<<pendingEv.Op, pendingEv.Path>>}
  /\ pendingEv' = NoEvent /\ loopPc' = "select"
  /\ UNCHANGED <<callVars, fsVars, cfgVars, progVars, cycle, numEvents, cancelClosed, emitted,
                 pendFrom, snap, pendSnap, fsDirty, fsAtPass, recreated, closeOnRunning>>

\* line 379: w.Event <- event meets the consumer's receive
Consume ==
  /\ Alive /\ loopPc = "deliver"
  /\ delivered' = Append(delivered, pendingEv)
  /\ since' = since \cup {<<pendingEv.Op, pendingEv.Path>>}
  /\ pendingEv' = NoEvent /\ loopPc' = "select"
  /\ UNCHANGED <<callVars, fsVars, cfgVars, progVars, cycle, numEvents, cancelClosed, emitted,
                 pendFrom, snap, pendSnap, fsDirty, fsAtPass, recreated, closeOnRunning>>

\* lines 351 and 380: done <- struct{}{} meets case <-done
LoopDone(c) ==
  /\ Alive /\ poll[c].st = "sendDone" /\ loopPc = "select" /\ cycle = c
  /\ poll' = [poll EXCEPT ![c].st = "end"]
  /\ loopPc' = "sleep"
  /\ UNCHANGED <<callVars, fsVars, cfgVars, fileTrees, treesNil, running, wg, mu, Closed, panicked,
                 starts, closers, cycle, numEvents, pendingEv, cancelClosed, ghostVars>>

\* line 391: time.Sleep(d)
LoopSleep ==
  /\ Alive /\ loopPc = "sleep"
  /\ loopPc' = "top"
  /\ recreated' = NotRecreated /\ fsAtPass' = fs
  /\ UNCHANGED <<callVars, fsVars, cfgVars, progVars, cycle, numEvents, pendingEv, cancelClosed,
                 delivered, emitted, pendFrom, snap, pendSnap, since, fsDirty, closeOnRunning>>

\* -------------------------------------------------------------- Close
CloseCall(j) ==
  /\ Alive /\ closers[j] = "idle"
  /\ closers' = [closers EXCEPT ![j] = "lock"]
  /\ UNCHANGED <<callVars, fsVars, cfgVars, fileTrees, treesNil, running, wg, mu, Closed, panicked,
                 poll, starts, loopVars, ghostVars>>

\* a Close that does not look at running
CloseIsNoopNever == FALSE

\* line 516: Close returns at once when the watcher is not running
CloseIsNoop == ~running

\* lines 515-522
CloseLock(j) ==
  /\ Alive /\ closers[j] = "lock" /\ mu = 0
  /\ IF CloseIsNoop
     THEN /\ closers' = [closers EXCEPT ![j] = "returned"]
          /\ UNCHANGED <<running, fileTrees, treesNil, closeOnRunning>>
     ELSE /\ closers' = [closers EXCEPT ![j] = "send"]
          /\ closeOnRunning' = closeOnRunning + (IF running THEN 1 ELSE 0)
          /\ running' = FALSE /\ fileTrees' = NoTrees /\ treesNil' = TRUE
  /\ UNCHANGED <<callVars, fsVars, cfgVars, wg, mu, Closed, panicked, poll, starts, loopVars,
                 delivered, emitted, pendFrom, snap, pendSnap, since, fsDirty, fsAtPass,
                 recreated>>

\* lines 524 and 360-363: w.close <- struct{}{} meets case <-w.close
LoopClose(j) ==
  /\ Alive /\ closers[j] = "send" /\ loopPc = "select"
  /\ closers' = [closers EXCEPT ![j] = "returned"]
  /\ cancelClosed' = cancelClosed \cup {cycle}
  /\ IF Closed
     THEN panicked' = "close of closed channel" /\ UNCHANGED Closed
     ELSE Closed' = TRUE /\ UNCHANGED panicked
  /\ loopPc' = "returned"
  /\ starts' = [i \in 1..MaxStarts |-> IF starts[i] = "loop" THEN "returned" ELSE starts[i]]
  /\ UNCHANGED <<callVars, fsVars, cfgVars, fileTrees, treesNil, running, wg, mu, poll, cycle,
                 numEvents, pendingEv, ghostVars>>

\* ------------------------------------------------------------ the systems
Environment ==
  \/ \E p \in AllPaths : FsWrite(p)
  \/ \E p \in AllPaths : FsRemove(p)
  \/ \E p \in AllPaths, kind \in CreateKinds : FsCreate(p, kind)

DiffTask ==
  \E c \in Cycles : PollLock(c) \/ PollCancelled(c) \/ PollSendEvt(c) \/ LoopDone(c)

Next ==
  \/ \E n \in 1..MaxCap : SetMaxEvents(n)
  \/ \E rc \in RootCandidates : AddPath(rc[1], rc[2])
  \/ Environment
  \/ StartLock(1) \/ StartWgDone(1)
  \/ LoopTop \/ LoopSleep \/ Consume
  \/ DiffTask

Spec == Init /\ [][Next]_vars

\* the watcher with operation and name filters and no cap: cancel is never
\* closed, so no emission finds it closed
NextFilter ==
  \/ \E S \in OpSets : FilterOps(S)
  \/ \E pat \in NamePatterns : FilterName(pat)
  \/ \E rc \in RootCandidates : AddPath(rc[1], rc[2])
  \/ Environment
  \/ StartLock(1) \/ StartWgDone(1)
  \/ LoopTop \/ LoopSleep \/ Consume
  \/ \E c \in Cycles : PollLock(c) \/ PollSendEvt(c) \/ LoopDone(c)

SpecFilter == Init /\ [][NextFilter]_vars

\* the life cycle: Start and Close calls in any order, over one root whose
\* files are written to. Close takes the watcher's lock before it signals the
\* loop, so cancel is closed only while no pass is walking
Lifecycle ==
  \/ \E i \in 1..MaxStarts : StartTooShort(i) \/ StartLock(i) \/ StartWgDone(i)
  \/ \E j \in 1..MaxCloses : CloseCall(j) \/ CloseLock(j) \/ LoopClose(j)

LifeWrite(p) == fsOps < MaxLifeWrites /\ FsWrite(p)

NextLife ==
  \/ AddPath(PathR, TRUE)
  \/ LifeWrite(PathA)
  \/ Lifecycle
  \/ LoopTop \/ LoopSleep \/ Consume
  \/ \E c \in Cycles : PollLock(c) \/ PollSendEvt(c) \/ LoopDone(c)

SpecLife == Init /\ [][NextLife]_vars

\* ----------------------------------------------------------- observations
\* what a consumer and a test can see of one cycle
Count(op, p) ==
  Cardinality({i \in 1..Len(delivered) : delivered[i].Op = op /\ delivered[i].Path = p})

\* the events handed to the public channel, the one being sent included
Shown == IF loopPc = "deliver" THEN Append(delivered, pendingEv) ELSE delivered

\* the cycle has ended with the diff task's done, not with a cancel
CycleDone == loopPc = "sleep" /\ cycle \notin cancelClosed
NoCap == maxEvents = 0

RECURSIVE IsSubseq(_, _)
IsSubseq(a, b) ==
  IF a = <<>> THEN TRUE
  ELSE IF b = <<>> THEN FALSE
  ELSE IF Head(a) = Head(b) THEN IsSubseq(Tail(a), Tail(b))
  ELSE IsSubseq(a, Tail(b))

\* the trees s (as a pass finds them) hold a live record of p under root k
Tracked(s, k, p) == s[k][p].st = "node" /\ ~s[k][p].ignored

Between(k, p) == {q \in AllPaths : IsPrefix(k, q) /\ IsPrefix(q, p) /\ q # p}

\* a pass over root k that starts from s and reads today's filesystem gets
\* as far as p: every directory on the way is there and is listed
Reached(s, k, p) ==
  /\ IsPrefix(k, p) /\ Tracked(s, k, k)
  /\ \A q \in Between(k, p) :
       /\ Exists(fs, q) /\ fs[q].kind = "dir"
       /\ CASE s[k][q].st = "node" -> ~s[k][q].ignored /\ s[k][q].recursive
            [] s[k][q].st = "absent" -> ~shouldIgnore(Last(q), q)
            [] OTHER -> FALSE
  /\ \A q \in (Between(k, p) \cup {p}) \ {k} : ~(ignoreHidden /\ isHiddenFile(q))

WriteDue(s, k, p) ==
  /\ Reached(s, k, p) /\ Tracked(s, k, p) /\ Exists(fs, p)
  /\ ModTime(s[k][p].Info) # fs[p].mtime

CreateDue(s, k, p) ==
  /\ p # k /\ Reached(s, k, p) /\ s[k][p].st = "absent" /\ Exists(fs, p)
  /\ ~shouldIgnore(Last(p), p)

\* a record whose path is gone and whose parent directory is still listed
RemoveDue(s, k, p) ==
  /\ Tracked(s, k, p) /\ ~Exists(fs, p)
  /\ IF p = k THEN TRUE
     ELSE Reached(s, k, Parent(p)) /\ Exists(fs, Parent(p)) /\ fs[Parent(p)].kind = "dir"
                                   /\ s[k][Parent(p)].recursive

Watching(p) == {k \in DOMAIN snap : Tracked(snap, k, p) /\ Reached(snap, k, p)}
ChangedMtime(p) == Exists(fsAtPass, p) /\ Exists(fs, p) /\ fsAtPass[p].mtime # fs[p].mtime
EventNow(op, p) == MkEvent(op, p, Lstat(fs, p))

\* the allow-list and the include filters let every kind of event for p through
Admitted(p) == \A op \in Ops : PassesFilters(EventNow(op, p))

\* a further pass over the unchanged filesystem emits nothing and leaves the
\* trees as they are
NextPassSilent ==
  \A x \in WalkRun({Cfg(fileTrees, DOMAIN fileTrees, <<>>, <<>>, FALSE)}) :
    x.stack = <<>> /\ ~x.panic /\ x.trees = fileTrees

\* ------------------------------------------------------------------ claims
\* C1: with maxEvents = N > 0 the loop hands at most N events of one cycle
\* to the public channel, however many changes the pass finds.
C1_CapBoundsCycle == maxEvents > 0 => Len(Shown) <= maxEvents

\* a cycle that delivered N events and was then cut short by the cap
C1_CapReached ==
  /\ maxEvents > 0 /\ cycle \in cancelClosed
  /\ Len(delivered) = maxEvents /\ Len(emitted) > maxEvents

\* C2: after a cycle cut short by the cap no change is lost: once a cycle
\* has run to its end and a further pass would find nothing, every write,
\* create and remove that the trees owed when the filesystem last changed
\* has been delivered.
C2_NoChangeLost ==
  (CycleDone /\ NextPassSilent) =>
    \A p \in AllPaths :
      /\ (\E k \in DOMAIN pendSnap : WriteDue(pendSnap, k, p)) => <<Write, p>> \in since
      /\ (\E k \in DOMAIN pendSnap : CreateDue(pendSnap, k, p)) => <<Create, p>> \in since
      /\ (\E k \in DOMAIN pendSnap : RemoveDue(pendSnap, k, p)) => <<Remove, p>> \in since

\* C9: poll cycles do not overlap: a pass walks the trees only when every
\* earlier pass has left them, the walking pass is the one holding the lock,
\* and the event being delivered comes from the current cycle's pass.
C9_CyclesDoNotOverlap ==
  /\ \A c1, c2 \in Cycles :
       (c1 < c2 /\ poll[c2].st \in {"walk", "sendDone", "end"})
         => poll[c1].st \in {"sendDone", "end"}
  /\ \A c \in Cycles : poll[c].st = "walk" => mu = c
  /\ loopPc = "deliver" => pendFrom = cycle

\* the pass of a capped cycle still walks while the next cycle's pass waits
C9_NextPassWaits ==
  \E c \in Cycles :
    /\ c + 1 \in Cycles /\ c \in cancelClosed
    /\ poll[c].st = "walk" /\ poll[c + 1].st = "waitMu"

\* C10: within one cycle the events handed to the public channel are a
\* subsequence of the events the pass emitted: filtering only drops.
C10_DeliveredIsSubsequence == IsSubseq(Shown, emitted)

\* a filter dropped one event and a later one of the same cycle got through
C10_FilterDropped ==
  /\ Len(delivered) >= 1 /\ Len(emitted) >= 2
  /\ ~PassesFilters(emitted[1]) /\ delivered[1] = emitted[2]

\* C3: when the modification time of a tracked path changes between two
\* polls (no cap, draining consumer), the next cycle delivers one Write for
\* it per root tree that holds it, none if the operation or include filters
\* reject it, each with the new metadata; a path whose modification time
\* did not change gets no Write.
C3_WritePerWatchingRoot ==
  (CycleDone /\ NoCap) =>
    /\ \A p \in AllPaths :
         Count(Write, p) = IF ChangedMtime(p) /\ PassesFilters(EventNow(Write, p))
                           THEN Cardinality(Watching(p)) ELSE 0
    /\ \A i \in 1..Len(delivered) :
         delivered[i].Op = Write => delivered[i].Info = Lstat(fs, delivered[i].Path)

\* a changed file in one root tree, reported once with its new metadata
C3_OneWriteSeen ==
  /\ CycleDone /\ NoCap
  /\ \E p \in AllPaths :
       /\ ChangedMtime(p) /\ fs[p].kind = "file" /\ Cardinality(Watching(p)) = 1
       /\ Count(Write, p) = 1

\* C3 as the specification words it: exactly one Write for every watched
\* path whose modification time changed (with filters that admit it).
C3_ExactlyOneWrite ==
  (CycleDone /\ NoCap) =>
    \A p \in AllPaths :
      (ChangedMtime(p) /\ Watching(p) # {} /\ Admitted(p)) => Count(Write, p) = 1

\* C4: a tracked path deleted between two polls, held by one root tree and
\* with its events admitted by the filters, gets exactly one Remove, and
\* afterwards the watch set can be listed and does not hold the path.
C4_ExactlyOneRemove ==
  (CycleDone /\ NoCap) =>
    \A p \in AllPaths :
      ( /\ Cardinality({k \in DOMAIN snap : Tracked(snap, k, p)}) = 1
        /\ Exists(fsAtPass, p) /\ ~Exists(fs, p)
        /\ Admitted(p) )
      => /\ Count(Remove, p) = 1
         /\ ~RetrievePanics
         /\ p \notin RetrieveAllNodes

\* C5: a path that appears between two polls where a root tree lists it (no
\* cap, draining consumer) gets one Create per such root tree in the next
\* cycle, none if the operation or include filters reject it, and after the
\* cycle each such tree holds a live record of it with its metadata.
C5_CreatePerListingRoot ==
  (CycleDone /\ NoCap) =>
    \A p \in AllPaths :
      LET roots == {k \in DOMAIN snap : CreateDue(snap, k, p)}
      IN /\ Count(Create, p) = IF PassesFilters(EventNow(Create, p))
                               THEN Cardinality(roots) ELSE 0
         /\ \A k \in roots : /\ Tracked(fileTrees, k, p)
                             /\ fileTrees[k][p].Info = Lstat(fs, p)

\* a new file under one recursive root, reported once and now in the watch set
C5_OneCreateSeen ==
  /\ CycleDone /\ NoCap
  /\ \E p \in AllPaths :
       /\ ~Exists(fsAtPass, p) /\ fs[p].kind = "file"
       /\ Cardinality({k \in DOMAIN snap : CreateDue(snap, k, p)}) = 1
       /\ Count(Create, p) = 1 /\ p \in RetrieveAllNodes

\* C5 as the specification words it: exactly one Create for every new path
\* a root tree lists (with filters that admit it), and the path is in the
\* watch set afterwards.
C5_ExactlyOneCreate ==
  (CycleDone /\ NoCap) =>
    \A p \in AllPaths :
      (~Exists(fsAtPass, p) /\ Admitted(p) /\ \E k \in DOMAIN snap : CreateDue(snap, k, p))
        => Count(Create, p) = 1 /\ p \in RetrieveAllNodes

\* C6: a tracked path deleted and created again between two consecutive
\* polls is reported in the next cycle as Write (one per root tree holding
\* it, when the filters admit Write), never as Remove or Create; any Remove
\* delivered is for a path the pass found missing, any Create for a path
\* some root tree had no record of.
C6_RecreatedIsWrite ==
  (CycleDone /\ NoCap) =>
    /\ \A p \in AllPaths :
         (recreated[p] = "recreated" /\ Watching(p) # {})
           => /\ Count(Remove, p) = 0 /\ Count(Create, p) = 0
              /\ PassesFilters(EventNow(Write, p))
                   => Count(Write, p) = Cardinality(Watching(p))
    /\ \A i \in 1..Len(delivered) :
         /\ delivered[i].Op = Remove => ~Exists(fs, delivered[i].Path)
         /\ delivered[i].Op = Create
              => \E k \in DOMAIN snap : snap[k][delivered[i].Path].st = "absent"

\* a file deleted and created again before the next poll, reported as Write
C6_RecreatedSeen ==
  /\ CycleDone /\ NoCap
  /\ \E p \in AllPaths :
       /\ recreated[p] = "recreated" /\ Watching(p) # {}
       /\ Count(Write, p) >= 1 /\ Count(Remove, p) = 0

\* C6 as the specification words it (with filters that admit the events):
\* Remove is delivered and Write is not.
C6_RemoveThenCreate ==
  (CycleDone /\ NoCap) =>
    \A p \in AllPaths :
      (recreated[p] = "recreated" /\ Watching(p) # {} /\ Admitted(p))
        => Count(Remove, p) = 1 /\ Count(Write, p) = 0

\* a step of the program that needs no receive on the public channel
StepWithoutConsumer ==
  \/ LoopTop \/ LoopSleep
  \/ \E c \in Cycles : PollLock(c) \/ PollCancelled(c) \/ PollSendEvt(c) \/ LoopDone(c)
  \/ \E j \in 1..MaxCloses : CloseLock(j) \/ LoopClose(j)

\* C7: when Close is called while the loop is sending an event on the
\* public channel, the program can go on towards termination without a
\* receive on that channel.
C7_CloseUnblocksDelivery ==
  (loopPc = "deliver" /\ \E j \in 1..MaxCloses : closers[j] \in {"lock", "send"})
    => ENABLED StepWithoutConsumer

\* C8: Closed is closed at most once (a second close of the channel would
\* panic) and only after a Close call that found the watcher running.
C8_ClosedFiresOnce ==
  /\ panicked # "close of closed channel"
  /\ Closed => closeOnRunning >= 1

\* Closed has fired, Start has returned, and another Close call returned
\* without effect
C8_ClosedAfterClose ==
  /\ Closed /\ \E i \in 1..MaxStarts : starts[i] = "returned"
  /\ \E j1, j2 \in 1..MaxCloses : j1 # j2 /\ closers[j1] = "returned" /\ closers[j2] = "returned"

\* ------------------------------------------------------ the kind allow-list
\* one recursive root, an allow-list set before Start, and all four kinds of
\* change in the filesystem
EnvironmentOps ==
  \E p \in AllPaths :
    \/ FsWrite(p)
    \/ FsChmod(p)
    \/ FsRemove(p)
    \/ \E kind \in CreateKinds : FsCreate(p, kind)

NextOps ==
  \/ \E S \in OpSets : FilterOps(S)
  \/ AddPath(PathR, TRUE)
  \/ EnvironmentOps
  \/ StartLock(1)
  \/ StartWgDone(1)
  \/ LoopTop
  \/ LoopSleep
  \/ Consume
  \/ \E c \in Cycles : PollLock(c) \/ PollSendEvt(c) \/ LoopDone(c)

SpecOps == Init /\ [][NextOps]_vars

\* the kinds of the events handed to the public channel
ShownOps == {Shown[i].Op : i \in 1..Len(Shown)}

\* C11: with a non-empty allow-list every polled event handed to the public
\* channel has a kind of the list; with an empty allow-list no polled event is
\* dropped because of its kind, so a finished cycle without name filters and
\* without a cap has delivered every event the diff task emitted
C11_OnlyAllowedOps ==
  /\ Cardinality(ops) > 0 => ShownOps \subseteq ops
  /\ (Cardinality(ops) = 0 /\ CycleDone /\ NoCap /\ Len(nameFilters) = 0) => delivered = emitted

\* a cycle under a non-empty allow-list delivered an event of a listed kind and
\* dropped an emitted event of a kind that is not listed
C11_ListedSeenOtherDropped ==
  /\ Cardinality(ops) > 0 /\ CycleDone
  /\ \E i \in 1..Len(delivered) : delivered[i].Op \in ops
  /\ \E i \in 1..Len(emitted) : emitted[i].Op \notin ops


\* ------------------------------------------------------- rejected starts
\* what a Start call can see or change of the watcher, the callers of Wait
\* and TriggerEvent included
EngineState == <<fsVars, cfgVars, fileTrees, treesNil, running, wg, mu, Closed, panicked, poll,
                 closers, loopVars, waiter, trigger>>

\* call i of Start returns in this step
StartReturns(i, err) == starts[i] = "idle" /\ starts'[i] = err

\* C12: a Start call whose interval is below one time unit (zero or negative)
\* returns DurationTooShort, a Start call with a valid interval on a running
\* watcher returns AlreadyRunning, no other Start call returns either error, and
\* the step that returns the error changes nothing of the watcher: the running
\* flag, the roots, the cycle in progress and the callers blocked in Wait are
\* as before
C12_RejectedStartChangesNothing ==
  [][\A i \in 1..MaxStarts :
       (starts[i] = "idle" /\ starts'[i] # "idle") =>
         /\ startDur'[i] < 1 <=> StartReturns(i, "errShort")
         /\ (startDur'[i] >= 1 /\ running) <=> StartReturns(i, "errRunning")
         /\ (StartReturns(i, "errShort") \/ StartReturns(i, "errRunning")) =>
              UNCHANGED EngineState]_vars

\* a Start call was rejected as already running while a cycle of the first
\* Start waits to deliver
C12_RejectedWhileRunning ==
  /\ running /\ loopPc = "deliver"
  /\ \E i, j \in 1..MaxStarts : starts[i] = "loop" /\ starts[j] = "errRunning"

\* --------------------------------------------------- waiting for the start
\* callers of Wait and TriggerEvent beside Start calls and one Close call in
\* any order, over one root whose files do not change
NextWait ==
  \/ AddPath(PathR, TRUE)
  \/ \E i \in 1..MaxStarts : StartTooShort(i) \/ StartLock(i) \/ StartWgDone(i)
  \/ CloseCall(1) \/ CloseLock(1) \/ LoopClose(1)
  \/ Waiters
  \/ LoopTop \/ LoopSleep
  \/ \E c \in Cycles : PollLock(c) \/ LoopDone(c)

SpecWait == Init /\ [][NextWait]_vars

\* a Start call has got past the running flag and w.wg.Done()
StartSucceeded == \E i \in 1..MaxStarts : starts[i] \in {"loop", "returned"}
WaitHasReturned == waiter = "returned"
TriggerHasWaited == trigger.pc \in {"send", "done"}

\* C13: Wait has returned, and TriggerEvent has placed or is placing its
\* event on the public channel, only if a Start call has set the watcher
\* running and released the waiters; as long as no Start call has succeeded
\* (rejected ones included) neither can take a step; once one has succeeded a
\* blocked Wait can return, a blocked TriggerEvent can go on to its send, and
\* the send completes as soon as the consumer receives
C13_WaitersReleasedByStart ==
  /\ (WaitHasReturned \/ TriggerHasWaited) => StartSucceeded
  /\ ~StartSucceeded => ~ENABLED (WaitReturn \/ TriggerWaited \/ TriggerReceived)
  /\ (StartSucceeded /\ Alive /\ waiter = "wait") => ENABLED WaitReturn
  /\ (StartSucceeded /\ Alive /\ trigger.pc = "wait") => ENABLED TriggerWaited
  /\ (Alive /\ trigger.pc = "send") => ENABLED TriggerReceived

\* a Start call was rejected for its interval while both callers were blocked;
\* a later one succeeded, Wait has returned and the triggered event was received
C13_ReleasedAfterRejectedStart ==
  /\ \E i, j \in 1..MaxStarts : starts[i] = "errShort" /\ starts[j] = "loop"
  /\ WaitHasReturned /\ trigger.pc = "done" /\ running

\* ------------------------------------------------- adding and removing roots
\* AddPath and Remove calls in any order before Start, over a tree in which
\* entries were deleted or turned into symbolic links, with the exclude filter
\* and the hidden-file switch set or not
IgnorePatterns == {NameD, NameB}

NextApi ==
  \/ IgnoreHiddenFiles(TRUE)
  \/ \E pat \in IgnorePatterns : IgnoreName(pat)
  \/ \E p \in AllPaths : SetupRemove(p) \/ SetupSymlink(p)
  \/ \E p \in AllPaths, recursive \in BOOLEAN : AddPathCall(p, recursive)
  \/ \E p \in AllPaths : RemoveCall(p)

SpecApi == Init /\ [][NextApi]_vars

\* the last call that returned
Called(op, path, recursive, err) ==
  call.op = op /\ call.path = path /\ call.recursive = recursive /\ call.err = err

\* this step is a call of AddPath, resp. Remove, that returns
AddPathStep ==
  /\ call'.op = "AddPath"
  /\ call' # call \/ fileTrees' # fileTrees \/ rootFlag' # rootFlag
RemoveStep ==
  /\ call'.op = "Remove"
  /\ call' # call \/ fileTrees' # fileTrees \/ rootFlag' # rootFlag

\* this step registers call'.path as a new root
Registers == AddPathStep /\ call'.path \notin DOMAIN fileTrees /\ call'.path \in DOMAIN fileTrees'

NoExcludes == Len(nameIgnores) = 0 /\ Len(pathIgnores) = 0 /\ ~ignoreHidden

\* C14: a non-recursive AddPath of D with no exclude filter and hidden files
\* not ignored leaves a tree that holds D and the entries directly in D, and
\* nothing below them; the other roots' trees are as before
C14_NonRecursiveIsOneLevel ==
  [][(Registers /\ ~call'.recursive /\ NoExcludes) =>
       /\ NodePaths(fileTrees'[call'.path]) =
            {call'.path} \cup {c \in ChildPaths(call'.path) : Exists(fs, c)}
       /\ \A k \in DOMAIN fileTrees : fileTrees'[k] = fileTrees[k]]_vars

\* /r was added non-recursively while /r/d/b was there: the watch set holds
\* /r, /r/.a and /r/d and not /r/d/b
C14_GrandchildLeftOut ==
  /\ Called("AddPath", PathR, FALSE, "nil") /\ NoExcludes
  /\ DOMAIN fileTrees = {PathR} /\ Exists(fs, PathB) /\ fs[PathD].kind = "dir"
  /\ RetrieveAllNodes = {PathR, PathA, PathD}

\* q's own name or path matches an exclude pattern; q is skipped as hidden
Excluded(q) ==
  \/ \E i \in 1..Len(nameIgnores) : MatchString(nameIgnores[i], Last(q))
  \/ \E i \in 1..Len(pathIgnores) : MatchString(pathIgnores[i], PathString(q))
Skipped(q) == Excluded(q) \/ (ignoreHidden /\ isHiddenFile(q))

\* the directories strictly between root D and q, D included
Above(D, q) == {a \in AllPaths : IsPrefix(D, a) /\ IsPrefix(a, q) /\ a # q}

\* q is D, or an entry below D that is not skipped and is reached from D
\* through real directories none of which is skipped
ReachedFrom(f, D, q) ==
  \/ q = D
  \/ /\ IsPrefix(D, q) /\ Exists(f, q) /\ ~Skipped(q)
     /\ \A a \in Above(D, q) : f[a].kind = "dir" /\ (a = D \/ ~Skipped(a))

\* C15: a recursive AddPath of D leaves a tree that holds D and exactly the
\* descendants of D that are neither excluded nor skipped as hidden and that
\* lie below directories of which the same is true and none of which is a
\* symbolic link; what lies below an excluded, hidden or symbolic-link
\* directory is not in the tree
C15_RecursiveStopsAtExcluded ==
  [][(Registers /\ call'.recursive) =>
       NodePaths(fileTrees'[call'.path]) = {q \in AllPaths : ReachedFrom(fs, call'.path, q)}]_vars

\* /r was added recursively with /r/d excluded by name: /r/d/b, which no
\* pattern matches, is not in the watch set
C15_BelowExcludedLeftOut ==
  /\ Called("AddPath", PathR, TRUE, "nil") /\ nameIgnores = <<NameD>> /\ ~ignoreHidden
  /\ DOMAIN fileTrees = {PathR} /\ Exists(fs, PathB) /\ ~Excluded(PathB)
  /\ RetrieveAllNodes = {PathR, PathA}

\* C15 as stated: the tree holds D and every existing descendant whose own
\* name and path match no exclude pattern, wherever it lies
C15_EveryUnexcludedDescendant ==
  [][(Registers /\ call'.recursive /\ ~ignoreHidden) =>
       NodePaths(fileTrees'[call'.path]) =
         {call'.path} \cup {q \in AllPaths : IsPrefix(call'.path, q) /\ Exists(fs, q) /\ ~Excluded(q)}]_vars

\* C16: AddPath of a path that is a root already, with either recursive flag,
\* leaves the roots, every tree and the flag the root was added with as they
\* were; it returns no error exactly when the path is still there and is no
\* symbolic link
C16_ReAddChangesNothing ==
  [][(AddPathStep /\ call'.path \in DOMAIN fileTrees) =>
       /\ UNCHANGED <<fileTrees, rootFlag>>
       /\ call'.err = "nil" <=> (Exists(fs, call'.path) /\ fs[call'.path].kind # "link")]_vars

\* /r was added non-recursively and then again recursively: no error, and
\* /r/d/b is still not in the watch set
C16_ReAddedWithOtherFlag ==
  /\ Called("AddPath", PathR, TRUE, "nil")
  /\ PathR \in DOMAIN rootFlag /\ ~rootFlag[PathR]
  /\ Exists(fs, PathB) /\ fs[PathD].kind = "dir" /\ NoExcludes
  /\ RetrieveAllNodes = {PathR, PathA, PathD}

\* C16 as stated: the repeated AddPath changes nothing and returns no error
C16_ReAddReturnsNoError ==
  [][(AddPathStep /\ call'.path \in DOMAIN fileTrees) =>
       /\ UNCHANGED <<fileTrees, rootFlag>>
       /\ call'.err = "nil"]_vars

\* C17: Remove of a root R deletes R's entry and nothing else: R is no root
\* any more, the other roots and their trees are as before, and the watch set
\* is what the other roots' trees hold, so a path equal to or below R stays in
\* it exactly when another root's tree holds it; Remove of a path that is no
\* root changes nothing; no error is returned
C17_RemoveDeletesOneRoot ==
  [][RemoveStep =>
       /\ call'.err = "nil"
       /\ DOMAIN fileTrees' = DOMAIN fileTrees \ {call'.path}
       /\ \A k \in DOMAIN fileTrees' : fileTrees'[k] = fileTrees[k]
       /\ RetrieveAllNodes' =
            UNION {NodePaths(fileTrees[k]) : k \in DOMAIN fileTrees \ {call'.path}}]_vars

\* /r and /r/d were roots and /r was removed: /r/d and /r/d/b are still in
\* the watch set, held by the root /r/d
C17_NestedRootStays ==
  /\ Called("Remove", PathR, FALSE, "nil") /\ call.root
  /\ DOMAIN fileTrees = {PathD}
  /\ RetrieveAllNodes = {PathD, PathB}

\* C17 as stated: after Remove of a root R no path equal to or below R is in
\* the watch set, whatever the other roots are
C17_SubtreeLeavesWatchSet ==
  [][(RemoveStep /\ call'.root) =>
       \A q \in AllPaths : IsPrefix(call'.path, q) => q \notin RetrieveAllNodes']_vars

\* C19: an AddPath call returns NotFound for a path that is not there and
\* SymlinkNotSupported for a path that is a symbolic link, returns no error
\* and registers nothing for a path that matches an exclude pattern or is
\* hidden while hidden files are ignored, returns an error in no other case,
\* and whenever it registers no new root the roots and their trees are as
\* before
C19_RejectedAddChangesNothing ==
  [][AddPathStep =>
       /\ ~Exists(fs, call'.path) => (call'.err = "ErrNotExist" /\ ~Registers)
       /\ (Exists(fs, call'.path) /\ fs[call'.path].kind = "link") =>
            (call'.err = "ErrWatchSymlink" /\ ~Registers)
       /\ (Exists(fs, call'.path) /\ fs[call'.path].kind # "link") =>
            /\ call'.err = "nil"
            /\ (Excluded(call'.path) \/ (ignoreHidden /\ isHiddenFile(call'.path))) => ~Registers
       /\ ~Registers => UNCHANGED <<fileTrees, rootFlag>>]_vars

\* with /r a root, AddPath of the deleted /r/d returned NotFound and /r is
\* still the only root
C19_NotFoundLeftRoots ==
  /\ Called("AddPath", PathD, TRUE, "ErrNotExist") /\ ~Exists(fs, PathD)
  /\ DOMAIN fileTrees = {PathR}

\* ---------------------------------------------------------- hidden entries
\* the hidden-file switch set or not before the roots are added, then changes
\* in the tree, the hidden entry included, and poll cycles
HiddenCandidates == RootCandidates \cup {<<PathA, TRUE>>}

NextHidden ==
  \/ IgnoreHiddenFiles(TRUE)
  \/ \E rc \in HiddenCandidates : AddPath(rc[1], rc[2])
  \/ Environment
  \/ StartLock(1) \/ StartWgDone(1)
  \/ LoopTop \/ LoopSleep \/ Consume
  \/ \E c \in Cycles : PollLock(c) \/ PollSendEvt(c) \/ LoopDone(c)

SpecHidden == Init /\ [][NextHidden]_vars

\* the events the diff task has emitted or holds ready in this cycle
EventPaths ==
  {emitted[i].Path : i \in 1..Len(emitted)} \cup {Shown[i].Path : i \in 1..Len(Shown)}

\* C18: with hidden files ignored from before the roots were added, no
\* dot-prefixed path is in the watch set after the build or after any changes
\* and polls, and no event is emitted or delivered for one; with hidden files
\* not ignored the dot-prefixed entry of a watched directory is in the watch
\* set after the build and after every finished cycle exactly when it exists
C18_HiddenNeverWatched ==
  /\ ignoreHidden =>
       /\ \A q \in RetrieveAllNodes : ~isHiddenFile(q)
       /\ \A q \in EventPaths : ~isHiddenFile(q)
  /\ (~ignoreHidden /\ PathR \in DOMAIN fileTrees /\ ~RootIsNil(PathR)
        /\ (fsOps = 0 \/ CycleDone) /\ fs[PathR].kind = "dir") =>
       (PathA \in RetrieveAllNodes <=> Exists(fs, PathA))

\* with hidden files ignored /r/.a was written and another entry changed: the
\* cycle delivered an event, none for /r/.a, which is not in the watch set
C18_HiddenWriteUnseen ==
  /\ ignoreHidden /\ CycleDone /\ Len(delivered) > 0
  /\ Exists(fs, PathA) /\ fs[PathA].mtime # InitFs[PathA].mtime
  /\ PathA \notin RetrieveAllNodes

\* --------------------------------------------------------- after Close
\* C20: once a Close call has taken effect on a running watcher, no later
\* Start, Close or AddPath call makes the running flag true again or the set
\* of roots non-empty
C20_ClosedIsTerminal ==
  closeOnRunning > 0 => (~running /\ DOMAIN fileTrees = {})

\* ------------------------------------------------- cancelling a diff pass
\* C21: once the cancel channel of a cycle is closed, the diff task of that
\* cycle is never stuck at an emission: wherever it waits to send, the Remove
\* for a node whose Lstat failed included, it can take the cancel case, go on
\* and release the watcher's lock
C21_CancelledPassNeverBlocks ==
  \A c \in Cycles : (Alive /\ c \in cancelClosed /\ Walking(c)) => ENABLED PollCancelled(c)

\* a capped watcher on r, or on r and r/d, whose files are touched and deleted
\* between polls
NextCancel ==
  \/ \E n \in 1..MaxCap : SetMaxEvents(n)
  \/ AddPath(PathR, TRUE) \/ AddPath(PathD, TRUE)
  \/ \E S \in SUBSET {PathR, PathA} : FsTouch(S)
  \/ FsRemove(PathB)
  \/ StartLock(1) \/ StartWgDone(1)
  \/ LoopTop \/ LoopSleep \/ Consume
  \/ DiffTask

SpecCancel == Init /\ [][NextCancel]_vars


\* C22: in the step in which the diff task finds cancel closed at an emission,
\* it walks no further: no node of any watched tree, in a sibling subtree or
\* under another root, is inserted, deleted or updated by that step
C22_CancelStopsTheWalk ==
  [][\A c \in Cycles : PollCancelled(c) => fileTrees' = fileTrees]_vars

\* ------------------------------------------------------ the cap and the filters
\* a capped watcher on r with an op allow-list and an include filter
NextCap ==
  \/ \E n \in 1..MaxCap : SetMaxEvents(n)
  \/ \E S \in OpSets : FilterOps(S)
  \/ \E pat \in NamePatterns : FilterName(pat)
  \/ AddPath(PathR, TRUE)
  \/ \E S \in SUBSET {PathA, PathD, PathB} : FsTouch(S)
  \/ FsRemove(PathB)
  \/ StartLock(1) \/ StartWgDone(1)
  \/ LoopTop \/ LoopSleep \/ Consume
  \/ DiffTask

SpecCap == Init /\ [][NextCap]_vars

\* the event is of a listed kind, or no kind is listed
Listed(event) == ops = {} \/ event.Op \in ops

\* the event's name or path matches an include pattern, or there is none
Included(event) ==
  \/ nameFilters = <<>> /\ pathFilters = <<>>
  \/ \E i \in 1..Len(nameFilters) : MatchString(nameFilters[i], event.Info.name)
  \/ \E i \in 1..Len(pathFilters) : MatchString(pathFilters[i], PathString(event.Path))

\* C23: when the loop receives an event from the diff task, the cycle's count
\* goes up by one if the event's kind is listed and it matches the include
\* filters, and stays otherwise; an event that is dropped does not close
\* cancel; and only an event that matches the include filters is handed on
\* towards the consumer
C23_CapCountsForwardedOnly ==
  [][\A c \in Cycles : PollSendEvt(c) =>
       LET event == Top(c).ev
           kept == Listed(event) /\ Included(event)
       IN /\ numEvents' = numEvents + (IF kept THEN 1 ELSE 0)
          /\ ~kept => cancelClosed' = cancelClosed /\ pendingEv' = pendingEv
          /\ pendingEv' # pendingEv => pendingEv' = event /\ kept]_vars

\* a capped cycle in which more events were emitted than the cap allows, one
\* of them dropped by a filter, and cancel is not closed
C23_DroppedDidNotCancel ==
  /\ maxEvents > 0 /\ cycle > 0 /\ cycle \notin cancelClosed
  /\ Len(emitted) > maxEvents
  /\ \E i \in 1..Len(emitted) : ~Included(emitted[i])
  /\ \E i \in 1..Len(emitted) : Included(emitted[i]) /\ ~Listed(emitted[i])

\* ------------------------------------------------------- a root that is gone
\* C24: once a pass that found a root's path gone has ended, the root
\* collection holds no entry for it: every key of fileTrees maps to a node,
\* none to nil
C24_GoneRootIsDropped ==
  (Alive /\ NoWalker) => \A k \in DOMAIN fileTrees : ~RootIsNil(k)

\* ------------------------------------------------------ a non-recursive root
\* a watcher on r, added non-recursively, while r/d is moved away and back
NextFlat ==
  \/ AddPath(PathR, FALSE)
  \/ FsRemove(PathD) \/ FsMoveIn(PathD)
  \/ \E p \in {PathA, PathB} : FsWrite(p)
  \/ StartLock(1) \/ StartWgDone(1)
  \/ LoopTop \/ LoopSleep \/ Consume
  \/ \E c \in Cycles : PollLock(c) \/ PollSendEvt(c) \/ LoopDone(c)

SpecFlat == Init /\ [][NextFlat]_vars

\* the roots and their immediate children
FlatPaths == UNION {{k} \cup ChildPaths(k) : k \in DOMAIN fileTrees}

\* C25: while every root was added non-recursively, the watch set holds only
\* roots and their immediate children, and no event is emitted for an entry
\* inside a subdirectory of a root, a subdirectory that appeared after the
\* root was added included
C25_NonRecursiveStaysFlat ==
  (\A k \in DOMAIN fileTrees : ~rootFlag[k]) =>
    /\ RetrieveAllNodes \subseteq FlatPaths
    /\ \A i \in 1..Len(emitted) : emitted[i].Path \in FlatPaths

\* ------------------------------------------- deletions during a diff pass
\* a recursive watcher on r whose entries are deleted and created between
\* polls and deleted while a pass is under way
NextRace ==
  \/ AddPath(PathR, TRUE)
  \/ \E p \in AllPaths : FsRemove(p) \/ FsRemoveMid(p)
  \/ \E p \in AllPaths : FsCreate(p, "file")
  \/ StartLock(1) \/ StartWgDone(1)
  \/ LoopTop \/ LoopSleep \/ Consume
  \/ \E c \in Cycles : PollLock(c) \/ PollSendEvt(c) \/ LoopDone(c)

SpecRace == Init /\ [][NextRace]_vars

\* C26: between two passes every entry of every node's Children holds a
\* node, never nil, whatever was deleted or created again before or during
\* the passes so far
C26_ChildrenAreNodes ==
  (Alive /\ NoWalker) =>
    \A k \in DOMAIN fileTrees : \A q \in AllPaths \ {k} : fileTrees[k][q].st # "nil"

\* ------------------------------------------------ excluded entries in the tree
\* a watcher with an exclude pattern on r, polled with and without changes
NextIgnore ==
  \/ \E pat \in IgnorePatterns : IgnoreName(pat)
  \/ \E recursive \in BOOLEAN : AddPath(PathR, recursive)
  \/ \E p \in AllPaths : FsWrite(p)
  \/ StartLock(1) \/ StartWgDone(1)
  \/ LoopTop \/ LoopSleep \/ Consume
  \/ \E c \in Cycles : PollLock(c) \/ PollSendEvt(c) \/ LoopDone(c)

SpecIgnore == Init /\ [][NextIgnore]_vars

Emissions(op, p) == {i \in 1..Len(emitted) : emitted[i].Op = op /\ emitted[i].Path = p}

\* the record of p that the pass started from differs from the file in its
\* modification time, in its mode
MtimeDiffers(k, p) == ModTime(snap[k][p].Info) # ModTime(Lstat(fs, p))
ModeDiffers(k, p) == Mode(snap[k][p].Info) # Mode(Lstat(fs, p))

\* a watcher on r, on r/d or on both, whose entries are written and have
\* their permission bits changed between polls
NextChmod ==
  \/ AddPath(PathR, TRUE) \/ AddPath(PathD, TRUE)
  \/ \E p \in AllPaths : FsWrite(p) \/ FsChmod(p)
  \/ StartLock(1) \/ StartWgDone(1)
  \/ LoopTop \/ LoopSleep \/ Consume
  \/ \E c \in Cycles : PollLock(c) \/ PollSendEvt(c) \/ LoopDone(c)

SpecChmod == Init /\ [][NextChmod]_vars

\* the root trees whose pass comes to p and finds its record differing from
\* the file in the modification time, in the mode
Visits(k, p) == Tracked(snap, k, p) /\ Reached(snap, k, p) /\ Exists(fs, p)
WriteRoots(p) == {k \in DOMAIN snap : Visits(k, p) /\ MtimeDiffers(k, p)}
ChmodRoots(p) == {k \in DOMAIN snap : Visits(k, p) /\ ModeDiffers(k, p)}

\* C28 as the code has it: in a cycle that ran to its end, a path was emitted
\* as Chmod once per root tree that found its mode differing and as Write
\* once per root tree that found its modification time differing, each with
\* the file's new metadata; where a tree found both, the Write comes right
\* before the Chmod; where the mode alone differs there is no Write
C28_WriteThenChmodPerRoot ==
  (CycleDone /\ NoCap) =>
    \A p \in AllPaths :
      /\ Cardinality(Emissions(Chmod, p)) = Cardinality(ChmodRoots(p))
      /\ Cardinality(Emissions(Write, p)) = Cardinality(WriteRoots(p))
      /\ \A i \in Emissions(Chmod, p) \cup Emissions(Write, p) :
           emitted[i].Info = Lstat(fs, p)
      /\ \A j \in Emissions(Chmod, p) :
           (\E k \in ChmodRoots(p) : k \in WriteRoots(p)) => j - 1 \in Emissions(Write, p)

\* a cycle has ended in which a file's modification time and permission bits
\* had both changed, with its Write emitted right before its Chmod
C28_BothChangedSeen ==
  /\ CycleDone /\ NoCap
  /\ \E p \in AllPaths :
       /\ fs[p].kind = "file" /\ WriteRoots(p) # {} /\ WriteRoots(p) = ChmodRoots(p)
       /\ \E i \in Emissions(Write, p) : i + 1 \in Emissions(Chmod, p)

\* C28 as the specification words it: a watched node whose mode differs from
\* its record is emitted as exactly one Chmod, after exactly one Write if its
\* modification time differs too, and with no Write otherwise
C28_OneWriteOneChmod ==
  (CycleDone /\ NoCap) =>
    \A p \in AllPaths :
      ChmodRoots(p) # {} =>
        /\ Cardinality(Emissions(Chmod, p)) = 1
        /\ IF WriteRoots(p) # {}
           THEN /\ Cardinality(Emissions(Write, p)) = 1
                /\ \A i \in Emissions(Write, p) : \A j \in Emissions(Chmod, p) : i < j
           ELSE Emissions(Write, p) = {}

\* ----------------------------------------------- listing the watch set
\* GoWatcher.RetrieveAllNodes (lines 527-536) takes no lock: it ranges over
\* w.fileTrees and every node's Children whenever it is called. A nil root is
\* dereferenced; while a pass has the trees in hand the reads race with the
\* pass's writes, and the call either returns what it read or the runtime
\* stops the program
RetrieveAllNodesCall ==
  /\ Alive /\ call.op # "RetrieveAllNodes"
  /\ call' = Returned("RetrieveAllNodes", <<>>, FALSE, "nil")
  /\ \/ RetrievePanics /\ panicked' = "nil pointer dereference"
     \/ ~RetrievePanics /\ UNCHANGED panicked
     \/ mu # 0 /\ panicked' = "concurrent map iteration and map write"
  /\ UNCHANGED <<startDur, waiter, trigger, rootFlag>>
  /\ UNCHANGED <<fsVars, cfgVars, fileTrees, treesNil, running, wg, mu, Closed, poll, starts,
                 closers, loopVars, ghostVars>>

\* a recursive watcher on r whose watch set is listed once, at any time
NextList ==
  \/ AddPath(PathR, TRUE)
  \/ \E p \in {PathA, PathB} : FsWrite(p) \/ FsRemove(p)
  \/ RetrieveAllNodesCall
  \/ StartLock(1) \/ StartWgDone(1)
  \/ LoopTop \/ LoopSleep \/ Consume
  \/ \E c \in Cycles : PollLock(c) \/ PollSendEvt(c) \/ LoopDone(c)

SpecList == Init /\ [][NextList]_vars

\* C29: RetrieveAllNodes reads the trees only when no diff pass holds the
\* watcher's lock, so what it returns is never a tree that a pass is in the
\* middle of updating
C29_ListExcludesPass == [][RetrieveAllNodesCall => mu = 0]_vars

\* ------------------------------------------- setters called after Start
\* SetMaxEvents (lines 76-81) and FilterOps (lines 181-188) called on a
\* running watcher: the call waits for w.mu, which a pass holds from its
\* first Lstat to its return, and assigns
SetMaxEventsLate(delta) ==
  /\ Alive /\ running /\ mu = 0 /\ maxEvents # delta
  /\ maxEvents' = delta
  /\ UNCHANGED <<callVars, fsVars, nameFilters, nameIgnores, pathFilters, pathIgnores, ops,
                 ignoreHidden, progVars, loopVars, ghostVars>>

FilterOpsLate(S) ==
  /\ Alive /\ running /\ mu = 0 /\ ops # S
  /\ ops' = S
  /\ UNCHANGED <<callVars, fsVars, nameFilters, nameIgnores, pathFilters, pathIgnores, maxEvents,
                 ignoreHidden, progVars, loopVars, ghostVars>>

\* case event := <-evt (line 364) on its own: the diff task's send meets the
\* loop's receive and the diff task walks on, to its next emission or to its
\* return and the Unlock of line 397, while the loop has yet to look at the
\* event
PollRecvEvt(c) ==
  /\ Alive /\ Walking(c) /\ Top(c).pc \in SendPcs
  /\ loopPc = "select" /\ cycle = c
  /\ LET r == AfterSend(Arena(c), poll[c].stack)
         x0 == Cfg([fileTrees EXCEPT ![poll[c].cur] = r.arena], poll[c].todo, poll[c].cur,
                   r.stack, FALSE)
     IN \E x \in WalkRun({x0}) : Reaches(c, x)
  /\ emitted' = Append(emitted, Top(c).ev)
  /\ pendingEv' = Top(c).ev /\ pendFrom' = c /\ loopPc' = "judge"
  /\ UNCHANGED <<callVars, fsVars, cfgVars, treesNil, running, wg, Closed, starts,
                 closers, cycle, numEvents, cancelClosed, delivered, snap, pendSnap, since,
                 fsDirty, fsAtPass, recreated, closeOnRunning>>

\* lines 365-378: the loop reads w.ops, the include filters and w.maxEvents,
\* without the lock, and drops the event, cancels the cycle or goes on to
\* send the event on w.Event
LoopJudge ==
  /\ Alive /\ loopPc = "judge"
  /\ IF ~PassesFilters(pendingEv)
     THEN /\ pendingEv' = NoEvent /\ loopPc' = "select"
          /\ UNCHANGED <<numEvents, cancelClosed>>
     ELSE IF CapExceeded(numEvents + 1)
     THEN /\ numEvents' = numEvents + 1 /\ cancelClosed' = cancelClosed \cup {cycle}
          /\ pendingEv' = NoEvent /\ loopPc' = "sleep"
     ELSE /\ numEvents' = numEvents + 1 /\ loopPc' = "deliver"
          /\ UNCHANGED <<pendingEv, cancelClosed>>
  /\ UNCHANGED <<callVars, fsVars, cfgVars, progVars, cycle, ghostVars>>

\* a recursive watcher on r whose cap and allow-list are set while it runs
NextConfig ==
  \/ AddPath(PathR, TRUE)
  \/ \E S \in SUBSET {PathA, PathD, PathB} : FsTouch(S)
  \/ \E n \in 1..MaxCap : SetMaxEventsLate(n)
  \/ \E S \in OpSets : FilterOpsLate(S)
  \/ StartLock(1) \/ StartWgDone(1)
  \/ LoopTop \/ LoopSleep \/ LoopJudge \/ Consume
  \/ \E c \in Cycles : PollLock(c) \/ PollRecvEvt(c) \/ PollCancelled(c) \/ LoopDone(c)

SpecConfig == Init /\ [][NextConfig]_vars

\* C30: the cap and the filters change only when the loop has no event of
\* the current cycle left to judge: no event is received and waiting for its
\* checks, and either the cycle has received none or its pass has returned;
\* so every event of a cycle is judged against the same values
C30_ConfigFixedWithinCycle ==
  [][cfgVars' # cfgVars =>
       /\ loopPc # "judge"
       /\ emitted = <<>> \/ poll[cycle].st \in {"sendDone", "end"}]_vars

\* ------------------------------------------------- AddPath after Close
\* AddPath (lines 193-236) on a watcher whose Close has set w.fileTrees to
\* nil (line 521): the early returns read the nil map, the store of line 233
\* writes to it
AddPathClosed(path, recursive) ==
  /\ Alive /\ mu = 0 /\ treesNil
  /\ IF AddPathOutcome(path) = "register"
     THEN panicked' = "assignment to entry in nil map" /\ UNCHANGED call
     ELSE /\ call' = Returned("AddPath", path, recursive,
                              IF AddPathOutcome(path) \in {"existed", "skipped"} THEN "nil"
                              ELSE AddPathOutcome(path))
          /\ UNCHANGED panicked
  /\ UNCHANGED <<startDur, waiter, trigger, rootFlag>>
  /\ UNCHANGED <<fsVars, cfgVars, fileTrees, treesNil, running, wg, mu, Closed, poll, starts,
                 closers, loopVars, ghostVars>>

\* a watcher on r that is started, closed, and then given paths to add, some
\* of them deleted meanwhile
NextClosed ==
  \/ AddPath(PathR, TRUE)
  \/ \E p \in AllPaths : FsRemove(p)
  \/ StartLock(1) \/ StartWgDone(1)
  \/ CloseCall(1) \/ CloseLock(1) \/ LoopClose(1)
  \/ \E p \in AllPaths, recursive \in BOOLEAN : AddPathClosed(p, recursive)
  \/ LoopTop \/ LoopSleep \/ Consume
  \/ \E c \in Cycles : PollLock(c) \/ PollSendEvt(c) \/ LoopDone(c)

SpecClosed == Init /\ [][NextClosed]_vars

\* C35: an AddPath call on a closed watcher returns, with nil or an error,
\* the program goes on, and the watcher has no root afterwards
C35_AddPathAfterCloseReturns ==
  [][\A p \in AllPaths, recursive \in BOOLEAN :
       AddPathClosed(p, recursive) =>
         /\ panicked' = "none" /\ call'.op = "AddPath"
         /\ DOMAIN fileTrees' = {}]_vars

\* ------------------------------------ calls made by the consumer of w.Event
\* the goroutine that receives from w.Event calls Remove (lines 292-304)
\* between two receives of a cycle: the call waits in w.mu.Lock() (line 293),
\* and while it waits the goroutine receives nothing
RemoveInvoked(path) ==
  /\ Alive /\ running /\ call.op = "none" /\ delivered # <<>>
  /\ call' = Returned("Remove", path, FALSE, "waiting")
  /\ UNCHANGED <<startDur, waiter, trigger, rootFlag>>
  /\ UNCHANGED <<fsVars, cfgVars, progVars, loopVars, ghostVars>>

InCall == call.err = "waiting"

RemoveProceeds == InCall /\ call.op = "Remove" /\ RemoveCall(call.path)

ConsumerReceives == ~InCall /\ Consume

\* a step of the watcher's own goroutines or of the waiting call
WatcherStep ==
  \/ RemoveProceeds
  \/ LoopTop \/ LoopSleep
  \/ \E c \in Cycles : PollLock(c) \/ PollSendEvt(c) \/ LoopDone(c)

\* a recursive watcher on r, without a cap, whose consumer calls Remove once
\* while it runs
NextCaller ==
  \/ AddPath(PathR, TRUE)
  \/ \E S \in SUBSET {PathA, PathD, PathB} : FsTouch(S)
  \/ StartLock(1) \/ StartWgDone(1)
  \/ \E p \in {PathR, PathB} : RemoveInvoked(p)
  \/ ConsumerReceives
  \/ WatcherStep

SpecCaller == Init /\ [][NextCaller]_vars

\* C31: a call made on the running watcher by the consumer of w.Event is
\* never stuck: while it waits for the lock, the call itself or one of the
\* watcher's goroutines can take a step, so that the lock comes free and the
\* call returns
C31_CallWhileRunningReturns == (Alive /\ InCall) => ENABLED WatcherStep

\* ------------------------------------- hidden files ignored after the build
\* lines 84-89, called once roots are registered (before or after Start)
IgnoreHiddenFilesLate(ignore) ==
  /\ Alive /\ mu = 0 /\ ignoreHidden # ignore /\ DOMAIN fileTrees # {}
  /\ ignoreHidden' = ignore
  /\ UNCHANGED <<callVars, fsVars, ops, nameFilters, nameIgnores, pathFilters, pathIgnores, maxEvents,
                 progVars, loopVars, ghostVars>>

\* a recursive watcher on r or on the hidden file r/.a; hidden files are
\* ignored only after the trees were built
NextLateHidden ==
  \/ \E rc \in HiddenCandidates : AddPath(rc[1], rc[2])
  \/ IgnoreHiddenFilesLate(TRUE)
  \/ \E p \in AllPaths : FsWrite(p) \/ FsRemove(p)
  \/ StartLock(1) \/ StartWgDone(1)
  \/ LoopTop \/ LoopSleep \/ Consume
  \/ \E c \in Cycles : PollLock(c) \/ PollSendEvt(c) \/ LoopDone(c)
SpecLateHidden == Init /\ [][NextLateHidden]_vars

\* C32: a Remove event handed to the consumer names a path that is absent
\* from the filesystem the pass read (the filesystem does not change between
\* the pass and the delivery), also when hidden files were set to be ignored
\* after the tree was built.
C32_RemoveOnlyForMissing ==
  [][(Consume /\ pendingEv.Op = Remove) => ~Exists(fs, pendingEv.Path)]_vars

\* ------------------------------------------------ Close under fair scheduling
\* a watcher set up with a cap of one event and the roots r and r/d, then
\* started, that is closed once while it runs
NextCloseFair ==
  \/ SetMaxEvents(1)
  \/ (maxEvents = 1 /\ AddPath(PathR, TRUE))
  \/ (PathR \in DOMAIN fileTrees /\ AddPath(PathD, TRUE))
  \/ FsWrite(PathR) \/ FsRemove(PathD)
  \/ (PathD \in DOMAIN fileTrees /\ StartLock(1)) \/ StartWgDone(1)
  \/ (running /\ CloseCall(1)) \/ CloseLock(1) \/ LoopClose(1)
  \/ LoopTop \/ LoopSleep \/ Consume
  \/ DiffTask

\* a step of Start, of a diff task, of the Close call, or a receive by the
\* consumer of w.Event
ProgramStep ==
  \/ StartWgDone(1) \/ LoopTop \/ LoopSleep \/ DiffTask
  \/ CloseLock(1) \/ LoopClose(1)
  \/ Consume

\* the goroutines are scheduled and the consumer keeps receiving: while some
\* step of the program can be taken, one is taken (the run has MaxCycles
\* cycles, so no step is taken forever at the cost of another)
CloseFairness == WF_vars(ProgramStep)
SpecCloseFair == Init /\ [][NextCloseFair]_vars /\ CloseFairness

\* the last cycle of the bounded run is over
LastCycleOver == cycle = MaxCycles /\ loopPc \in {"sleep", "top"}

\* C33: a Close call on the running watcher, with a consumer that keeps
\* receiving, leads to a state where Close has returned, w.Closed is closed
\* and Start has returned (or the bounded run reaches the end of its last
\* cycle first).
C33_CloseTerminates ==
  (closers[1] = "lock" /\ running)
    ~> ((closers[1] = "returned" /\ Closed /\ loopPc = "returned") \/ LastCycleOver)

\* ------------------------------------------------ the trees after a full cycle
\* the record of p under root k describes the entry p of the filesystem
MatchesFs(k, p) ==
  Tracked(fileTrees, k, p) => Exists(fs, p) /\ fileTrees[k][p].Info = Lstat(fs, p)

\* an entry a pass over root k gets to and does not ignore has a record
Covered(k, p) ==
  (Exists(fs, p) /\ Reached(fileTrees, k, p) /\ (p = k \/ ~shouldIgnore(Last(p), p)))
    => fileTrees[k][p].st = "node"

\* C34: when a cycle has run to its end without a cancel, every record of
\* the trees describes an existing entry with its current FileInfo, every
\* entry the pass reaches and does not ignore has a record, and a further
\* pass over the unchanged filesystem emits nothing and leaves the trees as
\* they are.
C34_TreeEqualsFsThenSilent ==
  CycleDone =>
    /\ \A k \in DOMAIN fileTrees : \A p \in Below(k) :
         fileTrees[k][k].st = "node" => MatchesFs(k, p) /\ Covered(k, p)
    /\ NextPassSilent

====
